---- MODULE Spec2Model ----
(***************************************************************************)
(* Smart Bin.  Three parts of the system are modelled:                     *)
(*                                                                         *)
(*  - the backend's MQTT message dispatcher (handleMessage), its three     *)
(*    handlers (handleLevelData, handleRFIDCheck, handleStatusUpdate), the *)
(*    record store they call (db.js over schema.sql) and the messages they *)
(*    publish: specification Spec;                                         *)
(*  - the backend's route PUT /api/bins/:id/config with updateBinConfig    *)
(*    and publishConfig: specification ConfigSpec;                         *)
(*  - the device firmware, loop() and the functions it calls:              *)
(*    specifications DeviceSpec and DeviceLive.                            *)
(*                                                                         *)
(* handleMessage is an async function registered as the client's 'message' *)
(* callback; nothing awaits it, so several handlers can be in flight.  A   *)
(* handler runs without interruption from one await to the next.  Deliver  *)
(* is the part of handleMessage up to its first await; each Step action is *)
(* one awaited store call together with the code that follows it up to the *)
(* next await or the return.                                               *)
(***************************************************************************)
EXTENDS Integers, Sequences, FiniteSets, TLC

(***************************************************************************)
(* Bounds of the model.                                                    *)
(***************************************************************************)
\* Number of inbound messages delivered in one behaviour.
MaxMsgs == 2

\* Number of configuration requests made in one behaviour.
MaxReqs == 2

\* The device's clock is followed up to MaxMillis; a pass of loop() ends on a
\* multiple of GridMs.
MaxMillis == 13000

GridMs == 1000

\* The horizon of the device's clock, in ms, when no message arrives.
MaxQuietMillis == 21000

\* Number of messages the dashboard receives in one behaviour.
MaxWebMsgs == 3

\* Number of inbound messages and requests together that the backend as a
\* whole receives in one behaviour.
MaxOps == 2

(***************************************************************************)
(* JavaScript values that occur in payloads.                               *)
(***************************************************************************)
\* SQL NULL / a present value, for nullable columns and optional fields.
Null == << >>

Some(x) == << x >>

\* Scalars: the value of one payload field.
Undefined == [t |-> "undefined", n |-> 0, s |-> ""]

Num(n) == [t |-> "number", n |-> n, s |-> ""]

Str(s) == [t |-> "string", n |-> 0, s |-> s]

\* typeof v === 'number'
IsNumber(v) == v.t = "number"

\* !v is false, i.e. v is truthy.
Truthy(v) ==
  \/ v.t = "string" /\ v.s # ""
  \/ v.t = "number" /\ v.n # 0

\* A parsed payload.  An object carries the fields the handlers destructure
\* (level, cm, uid; ts is only printed); a field that is absent is Undefined.
JsObject(l, c, u) == [t |-> "object", level |-> l, cm |-> c, uid |-> u, s |-> ""]

JsString(s) == [t |-> "string", level |-> Undefined, cm |-> Undefined, uid |-> Undefined, s |-> s]

JsNull == [t |-> "null", level |-> Undefined, cm |-> Undefined, uid |-> Undefined, s |-> ""]

SyntaxError == [t |-> "SyntaxError", level |-> Undefined, cm |-> Undefined, uid |-> Undefined, s |-> ""]

(***************************************************************************)
(* JSON text.  JSON_stringify writes a value the way the devices do; the   *)
(* dispatcher's JSON.parse is its inverse and throws on any other text.    *)
(***************************************************************************)
Quote(s) == "\"" \o s \o "\""

ScalarText(v) == IF v.t = "number" THEN ToString(v.n) ELSE Quote(v.s)

\* "key":value, or nothing for an absent field; sep is written before it.
Member(sep, key, v) ==
  IF v.t = "undefined" THEN "" ELSE sep \o Quote(key) \o ":" \o ScalarText(v)

JSON_stringify(v) ==
  CASE v.t = "null" -> "null"
    [] v.t = "string" -> Quote(v.s)
    [] v.t = "object" ->
         LET l == Member("", "level", v.level)
             c == Member(IF l = "" THEN "" ELSE ",", "cm", v.cm)
             u == Member(IF l \o c = "" THEN "" ELSE ",", "uid", v.uid)
         IN "{" \o l \o c \o u \o "}"

\* Every value a payload of the model can parse to.
Readings ==
  { JsObject(Num(45), Num(110), Undefined), JsObject(Num(80), Num(40), Undefined),
    JsObject(Num(85), Num(30), Undefined), JsObject(Num(150), Num(-10), Undefined),
    JsObject(Str("85"), Num(30), Undefined), JsObject(Num(85), Undefined, Undefined) }

Scans ==
  { JsObject(Undefined, Undefined, Str(u)) :
      u \in {"A1B2C3D4", "E5F6A7B8", "DEADBEEF", "0BADF00D", ""} }

JsonValues == Readings \cup Scans \cup {JsString("online"), JsString("offline"), JsNull}

\* The JSON text of each value.
JsonText == [v \in JsonValues |-> JSON_stringify(v)]

\* JSON.parse(message.toString()): the value whose text this is, or a throw.
JSON_parse(text) ==
  IF \E v \in JsonValues : JsonText[v] = text
  THEN CHOOSE v \in JsonValues : JsonText[v] = text
  ELSE SyntaxError

(***************************************************************************)
(* Topics.  A topic is the text on the wire; split is topic.split('/').    *)
(***************************************************************************)
RECURSIVE JoinUpTo(_, _)
JoinUpTo(segs, i) ==
  IF i = 1 THEN segs[1] ELSE JoinUpTo(segs, i - 1) \o "/" \o segs[i]

Join(segs) == JoinUpTo(segs, Len(segs))

BinIds == {"BIN_01", "BIN_02", "BIN_99"}

TopicParts ==
  {<<"smartbin", b, "data", "level">> : b \in BinIds}
    \cup {<<"smartbin", b, "rfid_check">> : b \in BinIds}
    \cup {<<"smartbin", b, "status">> : b \in BinIds}
    \cup { <<"smartbin", "BIN_01">>, <<"smartbin", "BIN_01", "data">>,
           <<"smartbin", "BIN_01", "data", "temp">>, <<"smartbin", "BIN_01", "lid">> }

\* The topic text of each sequence of segments.
TopicText == [segs \in TopicParts |-> Join(segs)]

split(topic) == CHOOSE segs \in TopicParts : TopicText[segs] = topic

LevelTopic(b) == TopicText[<<"smartbin", b, "data", "level">>]

RfidTopic(b) == TopicText[<<"smartbin", b, "rfid_check">>]

StatusTopic(b) == TopicText[<<"smartbin", b, "status">>]

(***************************************************************************)
(* Inbound messages the broker can hand to the backend.                    *)
(***************************************************************************)
Reading(l, c) == JsonText[JsObject(Num(l), Num(c), Undefined)]

Scan(u) == JsonText[JsObject(Undefined, Undefined, Str(u))]

Msg(topic, payload) == [topic |-> topic, payload |-> payload]

Messages ==
  {Msg(LevelTopic("BIN_01"), p) :
     p \in {JsonText[v] : v \in Readings} \cup {"{bad", "null"}}
    \cup {Msg(LevelTopic("BIN_02"), p) : p \in {Reading(45, 110), Reading(85, 30)}}
    \cup {Msg(LevelTopic("BIN_99"), Reading(85, 30))}
    \cup {Msg(RfidTopic("BIN_01"), p) :
            p \in {Scan("A1B2C3D4"), Scan("DEADBEEF"), Scan("0BADF00D"), Scan(""),
                   Reading(85, 30), "{bad"}}
    \cup {Msg(RfidTopic("BIN_02"), Scan("E5F6A7B8"))}
    \cup {Msg(RfidTopic("BIN_99"), p) : p \in {Scan("A1B2C3D4"), Scan("DEADBEEF")}}
    \cup {Msg(StatusTopic("BIN_01"), p) :
            p \in {"online", "offline", Quote("online"), Quote("offline")}}
    \cup {Msg(StatusTopic("BIN_02"), "offline"), Msg(StatusTopic("BIN_99"), Quote("offline"))}
    \cup {Msg(TopicText[<<"smartbin", "BIN_01">>], Reading(85, 30)),
          Msg(TopicText[<<"smartbin", "BIN_01", "data">>], Reading(85, 30)),
          Msg(TopicText[<<"smartbin", "BIN_01", "data", "temp">>], Reading(85, 30)),
          Msg(TopicText[<<"smartbin", "BIN_01", "lid">>], Scan("A1B2C3D4"))}

(***************************************************************************)
(* The device firmware (the ESP32 sketch).  esp is the record of the       *)
(* sketch's globals together with its clock (millis), its transport        *)
(* session, its servo and the messages it has published; each function of  *)
(* the sketch is an operator from that record to the record after the      *)
(* call.  delay(n) advances the clock by n.                                *)
(***************************************************************************)
BIN_ID == "BIN_01"

TOPIC_LEVEL == "smartbin/" \o BIN_ID \o "/data/level"

TOPIC_RFID == "smartbin/" \o BIN_ID \o "/rfid_check"

TOPIC_CMD == "smartbin/" \o BIN_ID \o "/cmd"

TOPIC_CONFIG == "smartbin/" \o BIN_ID \o "/config"

TOPIC_STATUS == "smartbin/" \o BIN_ID \o "/status"

BIN_HEIGHT_CM == 30

LID_AUTO_CLOSE_MS == 7000

TELEMETRY_INTERVAL_MS == 10000

PROXIMITY_DEBOUNCE_MS == 2000

\* A parsed cmd or config document: the keys the sketch reads; a key that is
\* absent is Undefined.
Doc(action, reason, mode, threshold) ==
  [ok |-> TRUE, action |-> action, reason |-> reason, mode |-> mode, threshold |-> threshold]

DeserializationError ==
  [ok |-> FALSE, action |-> Undefined, reason |-> Undefined, mode |-> Undefined,
   threshold |-> Undefined]

\* The JSON text of a document, as the backend's JSON.stringify writes it.
serializeJson(doc) ==
  LET a == Member("", "action", doc.action)
      r == Member(IF a = "" THEN "" ELSE ",", "reason", doc.reason)
      m == Member(IF a \o r = "" THEN "" ELSE ",", "mode", doc.mode)
      t == Member(IF a \o r \o m = "" THEN "" ELSE ",", "threshold", doc.threshold)
  IN "{" \o a \o r \o m \o t \o "}"

Docs ==
  { Doc(Str("open"), Str("rfid_authorized"), Undefined, Undefined),
    Doc(Str("open"), Undefined, Undefined, Undefined),
    Doc(Str("close"), Str("manual_control"), Undefined, Undefined),
    Doc(Undefined, Undefined, Str("AUTH"), Num(50)),
    Doc(Undefined, Undefined, Str("AUTO"), Num(30)) }

\* Documents that parse but carry a value the sketch does not know: an action
\* that is neither open nor close, and a mode that is neither AUTO nor AUTH
\* next to a threshold.
InvalidDocs ==
  { Doc(Str("toggle"), Str("manual_control"), Undefined, Undefined),
    Doc(Undefined, Undefined, Str("MANUAL"), Num(40)) }

DocText == [doc \in Docs \cup InvalidDocs |-> serializeJson(doc)]

\* deserializeJson(doc, message): the document whose text this is, or an error.
deserializeJson(text) ==
  IF \E doc \in DOMAIN DocText : DocText[doc] = text
  THEN CHOOSE doc \in DOMAIN DocText : DocText[doc] = text
  ELSE DeserializationError

\* What the broker can hand to the device: messages on the two topics it
\* subscribes to.
Inbound ==
  {Msg(TOPIC_CMD, DocText[doc]) : doc \in {x \in Docs : x.action # Undefined}}
    \cup {Msg(TOPIC_CONFIG, DocText[doc]) : doc \in {x \in Docs : x.action = Undefined}}

NoMsg == Msg("", "")

\* What one pass of loop() did, for the properties: the environment's input,
\* whether the servo attached, the session as reconnectMQTT left it, the
\* telemetry step, the lid before and after
\* the message callback and the proximity and card poll, the clock and the
\* globals at the poll, and the automatic close.
Idle ==
  [in |-> [msg |-> NoMsg, level |-> 0, prox |-> 0, card |-> ""],
   servoOk |-> TRUE,
   session |-> [made |-> FALSE, at |-> 0, sends |-> 0, will |-> Null, subscribed |-> {}],
   tel |-> [due |-> FALSE, levelBefore |-> 0, distanceBefore |-> 0, sends |-> 0],
   cb |-> [openBefore |-> FALSE, openAfter |-> FALSE, startBefore |-> 0, startAfter |-> 0,
           writes |-> 0, modeBefore |-> "", thresholdBefore |-> 0, same |-> TRUE],
   poll |-> [at |-> 0, mode |-> "", threshold |-> 0, last |-> 0, openBefore |-> FALSE,
             openAfter |-> FALSE, writes |-> 0, sends |-> 0, trigger |-> Null,
             done |-> Null],
   auto |-> [closed |-> FALSE, at |-> 0]]

\* The globals as the sketch declares them, at power-on, with the clock, the
\* session, the servo (attached, angle; writes counts lidServo.write calls of
\* the current pass) and what was published (sent; sends counts the publishes
\* of the current pass).
PowerOn ==
  [BIN_MODE |-> "AUTO", PROXIMITY_THRESHOLD_CM |-> 50, isLidOpen |-> FALSE,
   lidOpenTime |-> 0, lastTelemetryTime |-> 0, lastProximityCheck |-> 0,
   currentLevelPercent |-> 0, currentDistanceCm |-> 0,
   millis |-> 0, connected |-> FALSE, attached |-> FALSE, angle |-> 0, writes |-> 0,
   sent |-> {}, sends |-> 0,
   \* the session: the last will registered with it and the topics subscribed
   will |-> Null, subscribed |-> {},
   \* the hardware: whether lidServo.attach succeeds, and the red LED
   servoOk |-> TRUE, ledRed |-> FALSE,
   \* bookkeeping of the model: when the lid last went from closed to open,
   \* the reading time of the last honored proximity trigger and the time its
   \* opening was complete, whether a close command has ended an opening, and
   \* what the last pass of loop() did
   openedAt |-> 0, trigger |-> Null, triggerDone |-> Null, cancelled |-> FALSE,
   it |-> Idle]

delay(d, ms) == [d EXCEPT !.millis = @ + ms]

\* mqttClient.publish(topic, payload, retained): nothing is sent without a session.
publish(d, topic, payload, retained) ==
  IF d.connected
  THEN [d EXCEPT !.sent = @ \cup {[topic |-> topic, payload |-> payload,
                                   retained |-> retained]},
                 !.sends = @ + 1]
  ELSE d

\* if (!lidServo.attached()) { ...; lidServo.attach(SERVO_PIN, 500, 2400); delay(50); }
\* The value attach returns is not looked at.
attach(d) == IF d.attached THEN d ELSE delay([d EXCEPT !.attached = d.servoOk], 50)

\* lidServo.write(angle); delay(600); lidServo.detach();  A servo that is not
\* attached does not move.
drive(d, angle) ==
  [delay([d EXCEPT !.angle = IF d.attached THEN angle ELSE @, !.writes = @ + 1], 600)
     EXCEPT !.attached = FALSE]

\* Variant: openLid does not record the time of the opening.
openLid_keepsOpenTime(d, reason) ==
  IF d.isLidOpen THEN d
  ELSE [drive(attach(d), 120) EXCEPT !.isLidOpen = TRUE]

openLid(d, reason) ==
  IF d.isLidOpen THEN d
  ELSE LET w == drive(attach(d), 120)
       IN [w EXCEPT !.isLidOpen = TRUE, !.lidOpenTime = w.millis]

closeLid(d) == [drive(attach(d), 0) EXCEPT !.isLidOpen = FALSE]

\* doc[key] | fallback, for a string
OrElse(v, fallback) == IF v.t = "string" THEN v.s ELSE fallback

\* Variant: a command is carried out only for the reason rfid_authorized.
handleCommand_authorizedOnly(d, doc) ==
  LET action == OrElse(doc.action, "")
      reason == OrElse(doc.reason, "unknown")
  IN IF action = "open" /\ reason = "rfid_authorized" THEN openLid(d, reason)
     ELSE IF action = "close" THEN closeLid(d)
     ELSE d

handleCommand(d, doc) ==
  LET action == OrElse(doc.action, "")
      reason == OrElse(doc.reason, "unknown")
  IN IF action = "open" THEN openLid(d, reason)
     ELSE IF action = "close" THEN closeLid(d)
     ELSE d

\* Variant: the threshold of a config message is not taken over.
handleConfig_modeOnly(d, doc) ==
  LET newMode == OrElse(doc.mode, "null")
  IN delay(IF doc.mode # Undefined /\ newMode \in {"AUTO", "AUTH"}
           THEN [d EXCEPT !.BIN_MODE = newMode]
           ELSE d, 600)

\* Variant: the mode of a config message is taken over without the test.
handleConfig_anyMode(d, doc) ==
  LET newMode == OrElse(doc.mode, "null")
      m == IF doc.mode # Undefined THEN [d EXCEPT !.BIN_MODE = newMode] ELSE d
      t == IF doc.threshold # Undefined
           THEN [m EXCEPT !.PROXIMITY_THRESHOLD_CM =
                            IF doc.threshold.t = "number" THEN doc.threshold.n ELSE 0]
           ELSE m
  IN delay(t, 600)

\* The LED blinks three times: 3 * (delay(100) + delay(100)).
handleConfig(d, doc) ==
  LET newMode == OrElse(doc.mode, "null")
      m == IF doc.mode # Undefined /\ newMode \in {"AUTO", "AUTH"}
           THEN [d EXCEPT !.BIN_MODE = newMode]
           ELSE d
      t == IF doc.threshold # Undefined
           THEN [m EXCEPT !.PROXIMITY_THRESHOLD_CM =
                            IF doc.threshold.t = "number" THEN doc.threshold.n ELSE 0]
           ELSE m
  IN delay(t, 600)

\* topicStr.endsWith(suffix), for the topics of the system
endsWith(topic, suffix) == \E b \in BinIds : topic = "smartbin/" \o b \o suffix

mqttCallback(d, topic, message) ==
  LET doc == deserializeJson(message)
  IN IF ~doc.ok THEN d
     ELSE IF endsWith(topic, "/cmd") THEN handleCommand(d, doc)
     ELSE IF endsWith(topic, "/config") THEN handleConfig(d, doc)
     ELSE d

\* int levelPercent = ((BIN_HEIGHT_CM - distanceCm) * 100) / BIN_HEIGHT_CM
levelPercentOf(distanceCm) == ((BIN_HEIGHT_CM - distanceCm) * 100) \div BIN_HEIGHT_CM

constrain(x, lo, hi) == IF x < lo THEN lo ELSE IF x > hi THEN hi ELSE x

\* Variant: the reading is published without the range test.
publishLevelData_unchecked(d, distanceCm) ==
  LET levelPercent == constrain(levelPercentOf(distanceCm), 0, 100)
      s == [d EXCEPT !.currentLevelPercent = levelPercent,
                     !.currentDistanceCm = distanceCm]
  IN publish(s, TOPIC_LEVEL,
             JSON_stringify(JsObject(Num(levelPercent), Num(distanceCm), Undefined)),
             FALSE)

\* distanceCm is what measureDistance(LEVEL_TRIG_PIN, LEVEL_ECHO_PIN) returned.
publishLevelData(d, distanceCm) ==
  IF distanceCm <= 0 \/ distanceCm > BIN_HEIGHT_CM THEN d
  ELSE LET levelPercent == constrain(levelPercentOf(distanceCm), 0, 100)
           s == [d EXCEPT !.currentLevelPercent = levelPercent,
                          !.currentDistanceCm = distanceCm]
       IN publish(s, TOPIC_LEVEL,
                  JSON_stringify(JsObject(Num(levelPercent), Num(distanceCm), Undefined)),
                  FALSE)

\* Variant: the time of the check is recorded for every reading.
checkProximity_stampsEveryReading(d, distance) ==
  IF d.millis - d.lastProximityCheck < PROXIMITY_DEBOUNCE_MS THEN d
  ELSE IF distance > 0 /\ distance <= d.PROXIMITY_THRESHOLD_CM
       THEN LET o == openLid(d, "proximity_trigger")
            IN [o EXCEPT !.lastProximityCheck = o.millis]
       ELSE [d EXCEPT !.lastProximityCheck = d.millis]

\* distance is what measureDistance(PROX_TRIG_PIN, PROX_ECHO_PIN) returns.
checkProximity(d, distance) ==
  IF d.millis - d.lastProximityCheck < PROXIMITY_DEBOUNCE_MS THEN d
  ELSE IF distance > 0 /\ distance <= d.PROXIMITY_THRESHOLD_CM
       THEN LET o == openLid(d, "proximity_trigger")
            IN [o EXCEPT !.lastProximityCheck = o.millis]
       ELSE d

\* card is the uid of the card in the field, "" when there is none.
checkRFID(d, card) ==
  IF card = "" THEN d
  ELSE delay(publish(d, TOPIC_RFID,
                     JSON_stringify(JsObject(Undefined, Undefined, Str(card))), FALSE),
             200)

\* reconnectMQTT when mqttClient.connect(...) succeeds: the last will is
\* registered with the session, online is published, cmd and config are
\* subscribed.
WillMessage == [topic |-> TOPIC_STATUS, payload |-> "offline", retained |-> FALSE]

\* Variant: the session is made without the online message.
reconnectMQTT_silent(d) ==
  [d EXCEPT !.connected = TRUE, !.will = Some(WillMessage),
            !.subscribed = {TOPIC_CMD, TOPIC_CONFIG}]

reconnectMQTT(d) ==
  LET c == [d EXCEPT !.connected = TRUE, !.will = Some(WillMessage)]
      p == publish(c, TOPIC_STATUS, "online", TRUE)
  IN [p EXCEPT !.subscribed = {TOPIC_CMD, TOPIC_CONFIG}]

\* Variant: proximity is polled in either mode.
PollsProximity_anyMode(d) == ~d.isLidOpen

\* if (BIN_MODE.equals("AUTO") && !isLidOpen)
PollsProximity(d) == d.BIN_MODE = "AUTO" /\ ~d.isLidOpen

\* if (BIN_MODE.equals("AUTH") && !isLidOpen)
PollsRFID(d) == d.BIN_MODE = "AUTH" /\ ~d.isLidOpen

\* if (isLidOpen && (millis() - lidOpenTime >= LID_AUTO_CLOSE_MS))
AutoCloseDue(d) == d.isLidOpen /\ d.millis - d.lidOpenTime >= LID_AUTO_CLOSE_MS

\* if (millis() - lastTelemetryTime >= TELEMETRY_INTERVAL_MS)
TelemetryDue(d) == d.millis - d.lastTelemetryTime >= TELEMETRY_INTERVAL_MS

\* loop() is followed statement by statement.  What the environment supplies
\* to a pass is in: the packet mqttClient.loop() reads (NoMsg for none), the
\* level sensor's distance, the proximity sensor's distance and the uid of the
\* card in the reader's field ("" for none).
\* if (!mqttClient.connected()) reconnectMQTT(), with a broker that accepts
loopSession(d) == IF d.connected THEN d ELSE reconnectMQTT(d)

\* mqttClient.loop()
loopMessages(d, msg) == IF msg = NoMsg THEN d ELSE mqttCallback(d, msg.topic, msg.payload)

\* if (...) { publishLevelData(); lastTelemetryTime = millis(); }
loopTelemetry(d, level) ==
  IF TelemetryDue(d)
  THEN LET p == publishLevelData(d, level) IN [p EXCEPT !.lastTelemetryTime = p.millis]
  ELSE d

loopProximity(d, prox) == IF PollsProximity(d) THEN checkProximity(d, prox) ELSE d

loopRFID(d, card) == IF PollsRFID(d) THEN checkRFID(d, card) ELSE d

\* if (...) closeLid(); ...; delay(100)
loopAutoClose(d) == delay(IF AutoCloseDue(d) THEN closeLid(d) ELSE d, 100)

\* The pass as a whole.  The last conjuncts keep the model's bookkeeping.
loop(d, in) ==
  LET s1 == loopSession([d EXCEPT !.writes = 0, !.sends = 0])
      s2 == loopMessages(s1, in.msg)
      s3 == loopTelemetry(s2, in.level)
      s4 == loopProximity(s3, in.prox)
      s5 == loopRFID(s4, in.card)
      s6 == loopAutoClose(s5)
  IN [s6 EXCEPT
        !.openedAt = IF ~s1.isLidOpen /\ s2.isLidOpen THEN s2.millis
                     ELSE IF ~s3.isLidOpen /\ s4.isLidOpen THEN s4.millis
                     ELSE @,
        !.trigger = IF ~s3.isLidOpen /\ s4.isLidOpen THEN Some(s3.millis) ELSE @,
        !.triggerDone = IF ~s3.isLidOpen /\ s4.isLidOpen THEN Some(s4.millis) ELSE @,
        !.cancelled = @ \/ (s1.isLidOpen /\ ~s2.isLidOpen),
        !.it = [in |-> in,
                servoOk |-> d.servoOk,
                session |-> [made |-> ~d.connected, at |-> d.millis, sends |-> s1.sends,
                             will |-> s1.will, subscribed |-> s1.subscribed],
                tel |-> [due |-> TelemetryDue(s2), levelBefore |-> s2.currentLevelPercent,
                         distanceBefore |-> s2.currentDistanceCm,
                         sends |-> s3.sends - s2.sends],
                cb |-> [openBefore |-> s1.isLidOpen, openAfter |-> s2.isLidOpen,
                        startBefore |-> s1.lidOpenTime, startAfter |-> s2.lidOpenTime,
                        writes |-> s2.writes - s1.writes, modeBefore |-> s1.BIN_MODE,
                        thresholdBefore |-> s1.PROXIMITY_THRESHOLD_CM,
                        same |-> s2 = s1],
                poll |-> [at |-> s3.millis, mode |-> s3.BIN_MODE,
                          threshold |-> s3.PROXIMITY_THRESHOLD_CM,
                          last |-> s3.lastProximityCheck, openBefore |-> s3.isLidOpen,
                          openAfter |-> s5.isLidOpen, writes |-> s5.writes - s3.writes,
                          sends |-> s5.sends - s3.sends,
                          trigger |-> d.trigger, done |-> d.triggerDone],
                auto |-> [closed |-> s5.isLidOpen /\ ~s6.isLidOpen, at |-> s5.millis]]]

\* setup() up to setupMQTT: delay(1000); lidServo.attach(SERVO_PIN); delay(100);
\* closeLid().  The session is made by the first pass of loop(), which calls
\* reconnectMQTT as setupMQTT does.
setup(d) ==
  LET a == delay([delay(d, 1000) EXCEPT !.attached = TRUE], 100)
  IN [closeLid(a) EXCEPT !.writes = 0]

\* The time a pass of loop() takes beyond its delays (the echo wait of the
\* sensors, OTA and network handling) is not fixed by the sketch: the pass
\* ends on the next multiple of GridMs.
OnGrid(d) == [d EXCEPT !.millis = ((@ + GridMs - 1) \div GridMs) * GridMs]

InitEsp == OnGrid(setup(PowerOn))

\* What the sensors and the card reader can supply to one pass of loop().
Levels == {0, 12, 30, 45}

Distances == {0, 40}

Cards == {"", "A1B2C3D4"}

Input(msg, level, prox, card) == [msg |-> msg, level |-> level, prox |-> prox, card |-> card]

(***************************************************************************)
(* The record store (schema.sql) and the state of the system.              *)
(***************************************************************************)
VARIABLES
  bins,       \* table bins: bin_id -> row
  users,      \* table users: a set of rows
  logs,       \* table logs: rows in insertion order
  published,  \* messages handed to client.publish, in call order
  msgs,       \* inbound messages in arrival order
  proc,       \* proc[i]: where the handleMessage call for msgs[i] stands
  writer,     \* writer[b]: which message's UPDATE last wrote the row of bin b
  now,        \* the store's clock, NOW()
  http,       \* http[i]: where the handler of the i-th configuration request stands
  esp,        \* the device: the sketch's globals, clock, session, servo, publishes
  broker,     \* the broker as the device finds it: up or not, the attempts it refused (mod 2),
              \* the config message it retains and whether it still owes it to the session
  web         \* the dashboard page: the bins it shows and the last message it received

vars == <<bins, users, logs, published, msgs, proc, writer, now, http, esp, broker, web>>

BinRow(name, location, capacity, mode, threshold) ==
  [name |-> name, location |-> location, capacity_cm |-> capacity, mode |-> mode,
   threshold_cm |-> threshold, is_online |-> FALSE, last_seen |-> Null,
   current_level_percent |-> 0, current_distance_cm |-> 0]

InitBins ==
  [b \in {"BIN_01", "BIN_02"} |->
     IF b = "BIN_01"
     THEN BinRow("Main Entrance Bin", "Building A - Floor 1", 200, "AUTO", 50)
     ELSE BinRow("Cafeteria Bin", "Building B - Cafeteria", 180, "AUTH", 50)]

UserRow(uid, name, role, active) ==
  [rfid_uid |-> uid, name |-> name, role |-> role, is_active |-> active]

InitUsers ==
  { UserRow("04A1B2C3D4E5F6", "Admin User", "admin", TRUE),
    UserRow("A1B2C3D4", "John Doe", "user", TRUE),
    UserRow("E5F6A7B8", "Jane Smith", "user", TRUE),
    UserRow("0BADF00D", "Former Staff", "user", FALSE) }

(***************************************************************************)
(* The dashboard (frontend): its MQTT client and the page's callbacks.     *)
(***************************************************************************)
\* What the page shows of a bin (last_seen, the wall-clock time, is left
\* out); status is the badge handleLevelUpdate computes.
WebBin(row) ==
  [is_online |-> row.is_online, current_level_percent |-> Num(row.current_level_percent),
   current_distance_cm |-> Num(row.current_distance_cm), status |-> ""]

\* The page after fetchBins and after the two subscriptions were made.
InitWeb ==
  [bins |-> [b \in DOMAIN InitBins |-> WebBin(InitBins[b])],
   received |-> 0,
   last |-> [topic |-> "", payload |-> "", calls |-> 0],
   before |-> [b \in DOMAIN InitBins |-> WebBin(InitBins[b])]]

\* mqttClient.subscribe('smartbin/+/data/level', handleLevelUpdate, 0) and
\* mqttClient.subscribe('smartbin/+/status', handleStatusUpdate, 1): the
\* subscribers map, each topic filter split at "/".
Subscribers ==
  { [filter |-> <<"smartbin", "+", "data", "level">>, callback |-> "handleLevelUpdate"],
    [filter |-> <<"smartbin", "+", "status">>, callback |-> "handleStatusUpdate"] }

\* The for loop of topicMatch from index i on.
RECURSIVE partsMatch(_, _, _)
partsMatch(subParts, topicParts, i) ==
  IF i > Len(subParts) THEN TRUE
  ELSE IF subParts[i] = "#" THEN TRUE
  ELSE IF subParts[i] = "+" THEN partsMatch(subParts, topicParts, i + 1)
  ELSE IF subParts[i] # topicParts[i] THEN FALSE
  ELSE partsMatch(subParts, topicParts, i + 1)

\* topicMatch(subscription, topic) on the split parts; with different lengths
\* only a filter ending in "#" can match, when the topic starts with the
\* filter's other parts.
topicMatch(subParts, topicParts) ==
  IF Len(subParts) # Len(topicParts)
  THEN /\ subParts[Len(subParts)] = "#"
       /\ Len(topicParts) >= Len(subParts) - 1
       /\ \A i \in 1..(Len(subParts) - 1) : subParts[i] = topicParts[i]
  ELSE partsMatch(subParts, topicParts, 1)

\* level >= 80 ? 'critical' : level >= 60 ? 'warning' : 'normal'
Badge(level) ==
  IF IsNumber(level) /\ level.n >= 80 THEN "critical"
  ELSE IF IsNumber(level) /\ level.n >= 60 THEN "warning"
  ELSE "normal"

\* The page's handleLevelUpdate(topic, payload): setBins(prevBins => ...)
webLevelUpdate(shown, topic, payload) ==
  LET binId == split(topic)[2]
  IN [b \in DOMAIN shown |->
        IF b = binId
        THEN [shown[b] EXCEPT !.current_level_percent = payload.level,
                              !.current_distance_cm = payload.cm,
                              !.status = Badge(payload.level)]
        ELSE shown[b]]

\* The page's handleStatusUpdate(topic, payload): setBins(prevBins => ...)
webStatusUpdate(shown, topic, payload) ==
  LET binId == split(topic)[2]
      isOnline == payload = JsString("online")
  IN [b \in DOMAIN shown |->
        IF b = binId THEN [shown[b] EXCEPT !.is_online = isOnline] ELSE shown[b]]

\* The callbacks MQTTClient.handleMessage calls for a topic.
Matching(topic) == {s \in Subscribers : topicMatch(s.filter, split(topic))}

\* const payload = JSON.parse(message.toString())
webParse(message) == JSON_parse(message)

\* MQTTClient.handleMessage(topic, message): a throw of JSON.parse, or of a
\* callback that is handed null, is caught and logged.
webHandleMessage(w, topic, message) ==
  LET payload == webParse(message)
      hit == Matching(topic)
      thrown == payload = SyntaxError \/ (hit # {} /\ payload = JsNull)
      shown == IF thrown \/ hit = {} THEN w.bins
               ELSE IF (CHOOSE s \in hit : TRUE).callback = "handleLevelUpdate"
                    THEN webLevelUpdate(w.bins, topic, payload)
                    ELSE webStatusUpdate(w.bins, topic, payload)
  IN [bins |-> shown, received |-> w.received + 1,
      last |-> [topic |-> topic, payload |-> message,
                calls |-> IF payload = SyntaxError THEN 0 ELSE Cardinality(hit)],
      before |-> w.bins]

Init ==
  /\ bins = InitBins
  /\ users = InitUsers
  /\ logs = << >>
  /\ published = << >>
  /\ msgs = << >>
  /\ proc = << >>
  /\ writer = [b \in DOMAIN InitBins |-> [level |-> 0, status |-> 0, config |-> 0]]
  /\ now = 0
  /\ http = << >>
  /\ esp = InitEsp
  /\ broker = [up |-> TRUE, refused |-> 0, retained |-> NoMsg, owed |-> FALSE]
  /\ web = InitWeb

(***************************************************************************)
(* db.js: the store calls.  Each is one SQL statement, atomic in the       *)
(* store.                                                                  *)
(***************************************************************************)
\* Variant: the WHERE clause matches every row.
RowMatches_everyRow(x, binId) == TRUE

\* WHERE bin_id = ?, for the row whose bin_id is x.
RowMatches(x, binId) == x = binId

\* Some row of bins has this bin_id.
BinRowExists(b, binId) == \E x \in DOMAIN b : RowMatches(x, binId)

\* Variant: the query with AND mode = 'AUTH'.
getBinById_authOnly(b, binId) ==
  LET rows == {x \in DOMAIN b : RowMatches(x, binId) /\ b[x].mode = "AUTH"}
  IN IF rows = {} THEN Null ELSE Some(b[CHOOSE x \in rows : TRUE])

\* SELECT * FROM bins WHERE bin_id = ?; rows[0] || null
getBinById(b, binId) ==
  LET rows == {x \in DOMAIN b : RowMatches(x, binId)}
  IN IF rows = {} THEN Null ELSE Some(b[CHOOSE x \in rows : TRUE])

\* Variant: the query without AND is_active = TRUE.
getUserByRFID_anyStatus(u, rfidUid) ==
  LET rows == {r \in u : r.rfid_uid = rfidUid}
  IN IF rows = {} THEN Null ELSE Some(CHOOSE r \in rows : TRUE)

\* SELECT * FROM users WHERE rfid_uid = ? AND is_active = TRUE; rows[0] || null
getUserByRFID(u, rfidUid) ==
  LET rows == {r \in u : r.rfid_uid = rfidUid /\ r.is_active}
  IN IF rows = {} THEN Null ELSE Some(CHOOSE r \in rows : TRUE)

\* UPDATE bins SET is_online = ?, last_seen = NOW() WHERE bin_id = ?
updateBinStatus(b, binId, isOnline, t) ==
  [x \in DOMAIN b |->
     IF RowMatches(x, binId) THEN [b[x] EXCEPT !.is_online = isOnline, !.last_seen = Some(t)]
     ELSE b[x]]

\* Variant: the statement does not set current_distance_cm.
updateBinLevel_noDistance(b, binId, levelPercent, distanceCm, t) ==
  [x \in DOMAIN b |->
     IF RowMatches(x, binId)
     THEN [b[x] EXCEPT !.current_level_percent = levelPercent, !.last_seen = Some(t)]
     ELSE b[x]]

\* UPDATE bins SET current_level_percent = ?, current_distance_cm = ?,
\*   last_seen = NOW() WHERE bin_id = ?
updateBinLevel(b, binId, levelPercent, distanceCm, t) ==
  [x \in DOMAIN b |->
     IF RowMatches(x, binId)
     THEN [b[x] EXCEPT !.current_level_percent = levelPercent,
                       !.current_distance_cm = distanceCm, !.last_seen = Some(t)]
     ELSE b[x]]

\* Variant: the table has no foreign key, every INSERT succeeds.
ForeignKeyHolds_unchecked(b, binId) == TRUE

\* logs.bin_id REFERENCES bins(bin_id): the INSERT fails for any other bin_id.
ForeignKeyHolds(b, binId) == BinRowExists(b, binId)

\* The row logEvent inserts; data fields that are not given are NULL, and
\* success defaults to true.  src is the index of the inbound message whose
\* handler made the call (bookkeeping of the model, not a column).
LogRow(binId, eventType, rfidUid, userName, levelPercent, distanceCm, success, message, src) ==
  [bin_id |-> binId, event_type |-> eventType, rfid_uid |-> rfidUid, user_name |-> userName,
   level_percent |-> levelPercent, distance_cm |-> distanceCm, success |-> success,
   message |-> message, src |-> src]

\* Variant: the row is not written and the caller is not told.
logEvent_swallowed(lg, row) == lg

\* Variant: the statement overwrites the newest row instead of inserting one.
logEvent_replace(lg, row) ==
  IF lg = << >> THEN << row >> ELSE [lg EXCEPT ![Len(lg)] = row]

\* INSERT INTO logs (...) VALUES (...)
logEvent(lg, row) == Append(lg, row)

(***************************************************************************)
(* mqttClient.js: the publishers.  payload is the object that is passed to *)
(* JSON.stringify (ts, the wall-clock time, is left out); src as in logs.  *)
(***************************************************************************)
OutPayload(action, reason, user, type, uid, level) ==
  [action |-> action, reason |-> reason, user |-> user, type |-> type, uid |-> uid,
   level |-> level]

OutMessage(topic, payload, qos, retain, src) ==
  [topic |-> topic, payload |-> payload, qos |-> qos, retain |-> retain, src |-> src]

CmdTopic(binId) == "smartbin/" \o binId \o "/cmd"

AlertTopic(binId) == "smartbin/" \o binId \o "/alert"

\* Variant: the command goes out on the alert topic.
publishCommand_onAlertTopic(pub, binId, command, src) ==
  Append(pub, OutMessage(AlertTopic(binId), command, 1, FALSE, src))

\* client.publish(`smartbin/${binId}/cmd`, JSON.stringify(command), { qos: 1 })
publishCommand(pub, binId, command, src) ==
  Append(pub, OutMessage(CmdTopic(binId), command, 1, FALSE, src))

\* client.publish(`smartbin/${binId}/alert`, JSON.stringify(alert), { qos: 1 })
publishAlert(pub, binId, alert, src) ==
  Append(pub, OutMessage(AlertTopic(binId), alert, 1, FALSE, src))

(***************************************************************************)
(* mqttClient.js: handleMessage and the handlers, up to the first await.   *)
(* The result is the state of the call: where it waits, or how it ended.   *)
(*   exit: "invalid_topic", "invalid_json", "unknown_type", "no_handler",  *)
(*         "invalid_level", "no_uid", "bin_not_found" (early returns),     *)
(*         "ok" (ran to its end), "error" (a throw caught by the catch of  *)
(*         handleMessage).                                                 *)
(***************************************************************************)
\* binId, level, cm, uid, isOnline and user are the locals of the call (those
\* it has not set are at a default); quiet records whether every earlier call
\* had returned when this message arrived.
Call(pc, handler, exit) ==
  [pc |-> pc, handler |-> handler, exit |-> exit, binId |-> "", level |-> 0, cm |-> 0,
   uid |-> "", isOnline |-> FALSE, user |-> Null, quiet |-> FALSE]

Returned(handler, exit) == Call("returned", handler, exit)

Awaiting(handler, call) == Call(call, handler, "")

\* Variant: only level is checked.
ValidLevelData_levelOnly(payload) == IsNumber(payload.level)

\* typeof level !== 'number' || typeof cm !== 'number' is false
ValidLevelData(payload) == IsNumber(payload.level) /\ IsNumber(payload.cm)

\* Variant: if (level > 80)
LevelAlertDue_above(level) == level > 80

\* if (level >= 80)
LevelAlertDue(level) == level >= 80

\* const { level, cm, ts } = payload throws a TypeError for null.
handleLevelData(payload) ==
  IF payload.t = "null" THEN Returned("handleLevelData", "error")
  ELSE IF ~ValidLevelData(payload) THEN Returned("handleLevelData", "invalid_level")
  ELSE [Awaiting("handleLevelData", "updateBinLevel") EXCEPT
          !.level = payload.level.n, !.cm = payload.cm.n]

handleRFIDCheck(payload) ==
  IF payload.t = "null" THEN Returned("handleRFIDCheck", "error")
  ELSE IF ~Truthy(payload.uid) THEN Returned("handleRFIDCheck", "no_uid")
  ELSE [Awaiting("handleRFIDCheck", "getBinById") EXCEPT !.uid = payload.uid.s]

\* const isOnline = status === 'online'
isOnlineOf(status) == status = "online"

\* status is message.toString(), the text of the message, not the parsed payload.
handleStatusUpdate(status) ==
  [Awaiting("handleStatusUpdate", "updateBinStatus") EXCEPT !.isOnline = isOnlineOf(status)]

\* Variant: the throw of JSON.parse is swallowed and routing goes on.
ParseFailed_ignored(payload) == FALSE

\* JSON.parse threw.
ParseFailed(payload) == payload = SyntaxError

\* parts.length < 3 is false
EnoughParts(parts) == Len(parts) >= 3

\* Variant: every data topic is routed to handleLevelData.
IsLevelSubclass_anyData(parts) == TRUE

\* parts[3] === 'level' (parts[3] is undefined on a three-part topic)
IsLevelSubclass(parts) == Len(parts) >= 4 /\ parts[4] = "level"

\* switch (messageType), with binId = parts[1] and messageType = parts[2]
Route(parts, payload, text) ==
  LET call == CASE parts[3] = "data" ->
                     IF IsLevelSubclass(parts) THEN handleLevelData(payload)
                     ELSE Returned("none", "no_handler")
                [] parts[3] = "rfid_check" -> handleRFIDCheck(payload)
                [] parts[3] = "status" -> handleStatusUpdate(text)
                [] OTHER -> Returned("none", "unknown_type")
  IN [call EXCEPT !.binId = parts[2]]

handleMessage(m) ==
  LET parts == split(m.topic)
      payload == JSON_parse(m.payload)
  IN IF ~EnoughParts(parts) THEN Returned("none", "invalid_topic")
     ELSE IF ParseFailed(payload) THEN Returned("none", "invalid_json")
     ELSE Route(parts, payload, m.payload)

\* Variant: the client hands over the next message only when the handler of
\* the one before has returned, so a handler runs only after all earlier ones.
Waiting_inTurn(i, handler, call) ==
  /\ i \in DOMAIN proc
  /\ proc[i].handler = handler
  /\ proc[i].pc = call
  /\ \A j \in 1..(i - 1) : proc[j].pc = "returned"

Waiting(i, handler, call) ==
  /\ i \in DOMAIN proc
  /\ proc[i].handler = handler
  /\ proc[i].pc = call

\* Variant: the catch of handleMessage throws the error on, and the call ends
\* as a rejection nobody handles.
Return_rethrown(p, exit) ==
  [p EXCEPT !.pc = "returned", !.exit = IF exit = "error" THEN "unhandled" ELSE exit]

Return(p, exit) == [p EXCEPT !.pc = "returned", !.exit = exit]

Await(p, call) == [p EXCEPT !.pc = call]

(***************************************************************************)
(* Actions.                                                                *)
(***************************************************************************)
\* The client emits 'message': handleMessage runs up to its first await.
Deliver(m) ==
  /\ Len(msgs) < MaxMsgs
  /\ msgs' = Append(msgs, m)
  /\ proc' = Append(proc, [handleMessage(m) EXCEPT
                             !.quiet = \A j \in DOMAIN proc : proc[j].pc = "returned"])
  /\ now' = now + 1
  /\ UNCHANGED <<bins, users, logs, published, writer, http, esp, broker, web>>

\* handleLevelData: await db.updateBinLevel(binId, level, cm); if (level >= 80)
StepUpdateBinLevel(i) ==
  /\ Waiting(i, "handleLevelData", "updateBinLevel")
  /\ LET level == proc[i].level
         cm == proc[i].cm
     IN /\ bins' = updateBinLevel(bins, proc[i].binId, level, cm, now)
        /\ writer' = [x \in DOMAIN writer |->
                        IF RowMatches(x, proc[i].binId) THEN [writer[x] EXCEPT !.level = i]
                        ELSE writer[x]]
        /\ proc' = [proc EXCEPT ![i] = IF LevelAlertDue(level) THEN Await(@, "logEvent")
                                       ELSE Return(@, "ok")]
  /\ UNCHANGED <<users, logs, published, msgs, now, http, esp, broker, web>>

\* handleLevelData: await db.logEvent(binId, 'level_update', ...); publishAlert(...)
StepLogLevel(i) ==
  /\ Waiting(i, "handleLevelData", "logEvent")
  /\ LET level == proc[i].level
         cm == proc[i].cm
     IN IF ForeignKeyHolds(bins, proc[i].binId)
        THEN /\ logs' = logEvent(logs, LogRow(proc[i].binId, "level_update", Null, Null,
                                              Some(level), Some(cm), TRUE,
                                              Some("Bin is nearly full!"), i))
             /\ published' = publishAlert(published, proc[i].binId,
                               OutPayload(Null, Null, Null, Some("full_warning"), Null,
                                          Some(level)), i)
             /\ proc' = [proc EXCEPT ![i] = Return(@, "ok")]
        ELSE /\ proc' = [proc EXCEPT ![i] = Return(@, "error")]
             /\ UNCHANGED <<logs, published>>
  /\ UNCHANGED <<bins, users, msgs, writer, now, http, esp, broker, web>>

\* handleRFIDCheck: const bin = await db.getBinById(binId); if (!bin) return
StepGetBinById(i) ==
  /\ Waiting(i, "handleRFIDCheck", "getBinById")
  /\ proc' = [proc EXCEPT ![i] = IF getBinById(bins, proc[i].binId) = Null
                                 THEN Return(@, "bin_not_found")
                                 ELSE Await(@, "getUserByRFID")]
  /\ UNCHANGED <<bins, users, logs, published, msgs, writer, now, http, esp, broker, web>>

\* handleRFIDCheck: const user = await db.getUserByRFID(uid)
StepGetUserByRFID(i) ==
  /\ Waiting(i, "handleRFIDCheck", "getUserByRFID")
  /\ proc' = [proc EXCEPT ![i] =
                Await([@ EXCEPT !.user = getUserByRFID(users, proc[i].uid)],
                      "logEvent")]
  /\ UNCHANGED <<bins, users, logs, published, msgs, writer, now, http, esp, broker, web>>

\* handleRFIDCheck: await db.logEvent(binId, 'rfid_scan', ...); then
\* publishCommand (authorized) or publishAlert (unauthorized)
StepLogRfid(i) ==
  /\ Waiting(i, "handleRFIDCheck", "logEvent")
  /\ LET uid == proc[i].uid
         user == proc[i].user
     IN IF ForeignKeyHolds(bins, proc[i].binId)
        THEN /\ IF user # Null
                THEN /\ logs' = logEvent(logs, LogRow(proc[i].binId, "rfid_scan", Some(uid),
                                   Some(user[1].name), Null, Null, TRUE,
                                   Some("Access granted for " \o user[1].name), i))
                     /\ published' = publishCommand(published, proc[i].binId,
                                       OutPayload(Some("open"), Some("rfid_authorized"),
                                                  Some(user[1].name), Null, Null, Null), i)
                ELSE /\ logs' = logEvent(logs, LogRow(proc[i].binId, "rfid_scan", Some(uid),
                                   Null, Null, Null, FALSE,
                                   Some("Access denied: Unknown RFID"), i))
                     /\ published' = publishAlert(published, proc[i].binId,
                                       OutPayload(Null, Null, Null,
                                                  Some("unauthorized_access"), Some(uid),
                                                  Null), i)
             /\ proc' = [proc EXCEPT ![i] = Return(@, "ok")]
        ELSE /\ proc' = [proc EXCEPT ![i] = Return(@, "error")]
             /\ UNCHANGED <<logs, published>>
  /\ UNCHANGED <<bins, users, msgs, writer, now, http, esp, broker, web>>

\* handleStatusUpdate: await db.updateBinStatus(binId, isOnline)
StepUpdateBinStatus(i) ==
  /\ Waiting(i, "handleStatusUpdate", "updateBinStatus")
  /\ bins' = updateBinStatus(bins, proc[i].binId, proc[i].isOnline, now)
  /\ writer' = [x \in DOMAIN writer |->
                  IF RowMatches(x, proc[i].binId) THEN [writer[x] EXCEPT !.status = i]
                  ELSE writer[x]]
  /\ proc' = [proc EXCEPT ![i] = Await(@, "logEvent")]
  /\ UNCHANGED <<users, logs, published, msgs, now, http, esp, broker, web>>

\* handleStatusUpdate: await db.logEvent(binId, 'alert', ...)
StepLogStatus(i) ==
  /\ Waiting(i, "handleStatusUpdate", "logEvent")
  /\ LET isOnline == proc[i].isOnline
     IN IF ForeignKeyHolds(bins, proc[i].binId)
        THEN /\ logs' = logEvent(logs, LogRow(proc[i].binId, "alert", Null, Null, Null, Null,
                                   isOnline,
                                   Some(IF isOnline THEN "Device connected"
                                        ELSE "Device disconnected"), i))
             /\ proc' = [proc EXCEPT ![i] = Return(@, "ok")]
        ELSE /\ proc' = [proc EXCEPT ![i] = Return(@, "error")]
             /\ UNCHANGED logs
  /\ UNCHANGED <<bins, users, published, msgs, writer, now, http, esp, broker, web>>

Next ==
  \/ \E m \in Messages : Deliver(m)
  \/ \E i \in 1..MaxMsgs : StepUpdateBinLevel(i)
  \/ \E i \in 1..MaxMsgs : StepLogLevel(i)
  \/ \E i \in 1..MaxMsgs : StepGetBinById(i)
  \/ \E i \in 1..MaxMsgs : StepGetUserByRFID(i)
  \/ \E i \in 1..MaxMsgs : StepLogRfid(i)
  \/ \E i \in 1..MaxMsgs : StepUpdateBinStatus(i)
  \/ \E i \in 1..MaxMsgs : StepLogStatus(i)

Spec == Init /\ [][Next]_vars

(***************************************************************************)
(* routes: PUT /api/bins/:id/config.  http[i] is the state of the handler  *)
(* of the i-th request; like the message handlers it runs from one await   *)
(* to the next, and several requests can be in flight.                     *)
(***************************************************************************)
\* req.body: the five fields the route destructures and is_online, a field
\* of bins it does not; a field that is absent is Undefined.
Body(mode, threshold_cm, capacity_cm, name, location, is_online) ==
  [mode |-> mode, threshold_cm |-> threshold_cm, capacity_cm |-> capacity_cm,
   name |-> name, location |-> location, is_online |-> is_online]

Bodies ==
  { Body(Undefined, Undefined, Undefined, Undefined, Undefined, Undefined),
    Body(Undefined, Undefined, Undefined, Undefined, Undefined, Str("true")),
    Body(Str("AUTH"), Undefined, Undefined, Undefined, Undefined, Undefined),
    Body(Undefined, Num(30), Undefined, Undefined, Undefined, Undefined),
    Body(Str("AUTO"), Num(0), Undefined, Undefined, Undefined, Str("true")),
    Body(Undefined, Undefined, Num(150), Str("Lobby Bin"), Str("Hall"), Undefined),
    Body(Undefined, Num(40), Undefined, Str(""), Undefined, Undefined),
    Body(Undefined, Undefined, Undefined, Str(""), Undefined, Undefined),
    Body(Str("auto"), Num(30), Undefined, Undefined, Undefined, Undefined) }

\* The Authorization header of a request: absent (""), or a bearer token that
\* jwt.verify accepts or not.
GoodBearer == "Bearer good"

BadBearer == "Bearer expired"

Request(binId, body) == [binId |-> binId, body |-> body, authorization |-> GoodBearer]

\* The same request with another Authorization header.
WithHeader(req, authorization) == [req EXCEPT !.authorization = authorization]

\* authenticateToken(req, res, next): the status it answers, 0 when it calls
\* next().  No route of the router is registered with it.
authenticateToken(authorization) ==
  IF authorization = "" THEN 401
  ELSE IF authorization # GoodBearer THEN 403
  ELSE 0

Requests ==
  {Request("BIN_01", body) : body \in Bodies}
    \cup { Request("BIN_02", Body(Str("AUTO"), Num(30), Undefined, Undefined, Undefined,
                                  Undefined)),
           Request("BIN_99", Body(Str("AUTH"), Undefined, Undefined, Undefined, Undefined,
                                  Undefined)) }

\* if (mode && !['AUTO', 'AUTH'].includes(mode)) is false
ValidMode(body) == ~Truthy(body.mode) \/ body.mode \in {Str("AUTO"), Str("AUTH")}

\* if (mode) ..., if (threshold_cm !== undefined) ..., if (capacity_cm !== undefined) ...,
\* if (name) ..., if (location) ...
Taken(body, key) ==
  IF key \in {"threshold_cm", "capacity_cm"} THEN body[key] # Undefined
  ELSE Truthy(body[key])

\* const updates = {}; ... : the object the route hands to updateBinConfig
Updates(body) ==
  [key \in {k \in {"mode", "threshold_cm", "capacity_cm", "name", "location"} :
              Taken(body, k)} |-> body[key]]

\* const allowedFields = [...]
allowedFields == {"mode", "threshold_cm", "capacity_cm", "name", "location"}

\* The columns updateBinConfig puts into its SET clause.
setClause(updates) == {key \in DOMAIN updates : key \in allowedFields}

\* Variant: the statement is issued with whatever the SET clause holds.
NoValidFields_ignored(updates) == FALSE

\* if (setClause.length === 0) throw new Error('No valid fields to update')
NoValidFields(updates) == setClause(updates) = {}

\* The value a column takes from a JavaScript value.
Column(v) == IF v.t = "number" THEN v.n ELSE v.s

\* Variant: the statement has no WHERE clause.
updateBinConfig_everyRow(b, binId, updates) ==
  [x \in DOMAIN b |->
     [f \in DOMAIN b[x] |->
        IF f \in setClause(updates) THEN Column(updates[f]) ELSE b[x][f]]]

\* UPDATE bins SET <key = ?, ...>, updated_at = NOW() WHERE bin_id = ?
updateBinConfig(b, binId, updates) ==
  [x \in DOMAIN b |->
     IF RowMatches(x, binId)
     THEN [f \in DOMAIN b[x] |->
             IF f \in setClause(updates) THEN Column(updates[f]) ELSE b[x][f]]
     ELSE b[x]]

ConfigTopic(binId) == "smartbin/" \o binId \o "/config"

\* client.publish(`smartbin/${binId}/config`, JSON.stringify({ mode: config.mode,
\*   threshold: config.threshold_cm, ts }), { qos: 1, retain: true })
publishConfig(pub, binId, config, src) ==
  Append(pub, OutMessage(ConfigTopic(binId),
                         [mode |-> config.mode, threshold |-> config.threshold_cm],
                         1, TRUE, src))

\* The state of one request: where its handler waits (pc), the response
\* status once it has answered (0 before), its updates object and the row
\* it read back; before and after are the table around its UPDATE (bookkeeping
\* of the model).
Handling(req) ==
  [pc |-> "getBinById", status |-> 0, binId |-> req.binId, body |-> req.body,
   authorization |-> req.authorization,
   updates |-> << >>, updatedBin |-> Null, before |-> Null, after |-> Null]

\* res.status(code).json(...)
Respond(h, code) == [h EXCEPT !.pc = "responded", !.status = code]

InFlight(i, call) == i \in DOMAIN http /\ http[i].pc = call

\* router.put('/bins/:id/config', ...) up to await db.getBinById(binId)
PutConfig(req) ==
  /\ Len(http) < MaxReqs
  /\ http' = Append(http, Handling(req))
  /\ UNCHANGED <<bins, users, logs, published, msgs, proc, writer, now, esp, broker, web>>

\* const bin = await db.getBinById(binId); the two validations; the updates
\* object; the call of db.updateBinConfig up to its pool.query
CfgGetBinById(i) ==
  /\ InFlight(i, "getBinById")
  /\ LET h == http[i]
         updates == Updates(h.body)
     IN http' = [http EXCEPT ![i] =
                   IF getBinById(bins, h.binId) = Null THEN Respond(h, 404)
                   ELSE IF ~ValidMode(h.body) THEN Respond(h, 400)
                   ELSE IF NoValidFields(updates) THEN Respond(h, 500)
                   ELSE [h EXCEPT !.pc = "updateBinConfig", !.updates = updates]]
  /\ UNCHANGED <<bins, users, logs, published, msgs, proc, writer, now, esp, broker, web>>

\* await db.updateBinConfig(binId, updates): the UPDATE
CfgUpdateBinConfig(i) ==
  /\ InFlight(i, "updateBinConfig")
  /\ LET h == http[i]
         after == updateBinConfig(bins, h.binId, h.updates)
     IN /\ bins' = after
        /\ writer' = [x \in DOMAIN writer |->
                        IF RowMatches(x, h.binId) THEN [writer[x] EXCEPT !.config = i]
                        ELSE writer[x]]
        /\ http' = [http EXCEPT ![i] =
                      [h EXCEPT !.pc = "getUpdatedBin", !.before = Some(bins),
                                !.after = Some(after)]]
  /\ UNCHANGED <<users, logs, published, msgs, proc, now, esp, broker, web>>

\* const updatedBin = await db.getBinById(binId): the SELECT
CfgGetUpdatedBin(i) ==
  /\ InFlight(i, "getUpdatedBin")
  /\ http' = [http EXCEPT ![i] =
                [@ EXCEPT !.pc = "publishConfig",
                          !.updatedBin = getBinById(bins, http[i].binId)]]
  /\ UNCHANGED <<bins, users, logs, published, msgs, proc, writer, now, esp, broker, web>>

\* mqttClient.publishConfig(binId, updatedBin), up to await db.logEvent(...)
CfgPublishConfig(i) ==
  /\ InFlight(i, "publishConfig")
  /\ published' = publishConfig(published, http[i].binId, http[i].updatedBin[1], i)
  /\ http' = [http EXCEPT ![i] = [@ EXCEPT !.pc = "logEvent"]]
  /\ UNCHANGED <<bins, users, logs, msgs, proc, writer, now, esp, broker, web>>

\* await db.logEvent(binId, 'config_change', ...); res.json({ success: true, ... })
CfgLogEvent(i) ==
  /\ InFlight(i, "logEvent")
  /\ logs' = logEvent(logs, LogRow(http[i].binId, "config_change", Null, Null, Null, Null,
                                   TRUE, Some("Configuration updated"), i))
  /\ http' = [http EXCEPT ![i] = Respond(@, 200)]
  /\ UNCHANGED <<bins, users, published, msgs, proc, writer, now, esp, broker, web>>

ConfigNext ==
  \/ \E req \in Requests : PutConfig(req)
  \/ \E i \in 1..MaxReqs : CfgGetBinById(i)
  \/ \E i \in 1..MaxReqs : CfgUpdateBinConfig(i)
  \/ \E i \in 1..MaxReqs : CfgGetUpdatedBin(i)
  \/ \E i \in 1..MaxReqs : CfgPublishConfig(i)
  \/ \E i \in 1..MaxReqs : CfgLogEvent(i)

ConfigSpec == Init /\ [][ConfigNext]_vars

(***************************************************************************)
(* routes: POST /bins/:id/command, and the two routes with requests that   *)
(* carry any Authorization header.                                         *)
(***************************************************************************)
\* The body of a command request: the key the route reads.
CommandBody(action) == [action |-> action]

CommandRequests ==
  { Request("BIN_01", CommandBody(Str("open"))),
    Request("BIN_01", CommandBody(Str("close"))),
    Request("BIN_01", CommandBody(Str("reboot"))),
    Request("BIN_01", CommandBody(Undefined)),
    Request("BIN_99", CommandBody(Str("open"))) }

\* ['open', 'close'].includes(action)
ValidAction(body) == body.action \in {Str("open"), Str("close")}

\* router.post('/bins/:id/command', ...) up to await db.getBinById(binId)
PostCommand(req) ==
  /\ Len(http) < MaxReqs
  /\ http' = Append(http, IF ValidAction(req.body)
                          THEN [Handling(req) EXCEPT !.pc = "cmdGetBinById"]
                          ELSE Respond(Handling(req), 400))
  /\ UNCHANGED <<bins, users, logs, published, msgs, proc, writer, now, esp, broker, web>>

\* const bin = await db.getBinById(binId); mqttClient.publishCommand(...), up
\* to await db.logEvent(...)
CmdGetBinById(i) ==
  /\ InFlight(i, "cmdGetBinById")
  /\ LET h == http[i]
     IN IF getBinById(bins, h.binId) = Null
        THEN /\ http' = [http EXCEPT ![i] = Respond(h, 404)]
             /\ UNCHANGED published
        ELSE /\ published' = publishCommand(published, h.binId,
                               OutPayload(Some(h.body.action.s), Some("manual_control"),
                                          Some("admin"), Null, Null, Null), i)
             /\ http' = [http EXCEPT ![i] = [h EXCEPT !.pc = "cmdLogEvent"]]
  /\ UNCHANGED <<bins, users, logs, msgs, proc, writer, now, esp, broker, web>>

\* await db.logEvent(binId, action === 'open' ? 'lid_open' : 'lid_close', ...);
\* res.json({ success: true, ... })
CmdLogEvent(i) ==
  /\ InFlight(i, "cmdLogEvent")
  /\ LET action == http[i].body.action.s
     IN logs' = logEvent(logs, LogRow(http[i].binId,
                                     IF action = "open" THEN "lid_open" ELSE "lid_close",
                                     Null, Null, Null, Null, TRUE,
                                     Some("Manual " \o action), i))
  /\ http' = [http EXCEPT ![i] = Respond(@, 200)]
  /\ UNCHANGED <<bins, users, published, msgs, proc, writer, now, esp, broker, web>>

\* The requests clients can make: each with a token that verifies, some with
\* no Authorization header or with a token that does not verify.
ApiConfigRequests ==
  {Request("BIN_01", body) :
     body \in { Body(Str("AUTH"), Undefined, Undefined, Undefined, Undefined, Undefined),
                Body(Undefined, Undefined, Undefined, Undefined, Undefined, Undefined) }}

Headers == {GoodBearer, BadBearer, ""}

ApiNext ==
  \/ \E req \in ApiConfigRequests, a \in Headers : PutConfig(WithHeader(req, a))
  \/ \E req \in CommandRequests, a \in Headers : PostCommand(WithHeader(req, a))
  \/ \E i \in 1..MaxReqs : CfgGetBinById(i)
  \/ \E i \in 1..MaxReqs : CfgUpdateBinConfig(i)
  \/ \E i \in 1..MaxReqs : CfgGetUpdatedBin(i)
  \/ \E i \in 1..MaxReqs : CfgPublishConfig(i)
  \/ \E i \in 1..MaxReqs : CfgLogEvent(i)
  \/ \E i \in 1..MaxReqs : CmdGetBinById(i)
  \/ \E i \in 1..MaxReqs : CmdLogEvent(i)

ApiSpec == Init /\ [][ApiNext]_vars

(***************************************************************************)
(* The whole backend: the MQTT handlers and the two routes in one process, *)
(* their awaits interleaved.                                               *)
(***************************************************************************)
BackendMessages ==
  { Msg(LevelTopic("BIN_01"), Reading(85, 30)), Msg(LevelTopic("BIN_02"), Reading(45, 110)),
    Msg(RfidTopic("BIN_01"), Scan("A1B2C3D4")), Msg(RfidTopic("BIN_02"), Scan("DEADBEEF")),
    Msg(StatusTopic("BIN_01"), Quote("online")), Msg(StatusTopic("BIN_02"), "offline") }

BackendConfigRequests ==
  { Request("BIN_01", Body(Str("AUTH"), Undefined, Undefined, Undefined, Undefined,
                           Str("true"))),
    Request("BIN_02", Body(Undefined, Num(30), Num(150), Str("Lobby Bin"), Str("Hall"),
                           Undefined)) }

BackendCommandRequests ==
  {Request("BIN_01", CommandBody(Str("open"))), Request("BIN_02", CommandBody(Str("close")))}

\* An inbound message or a request arrives while fewer than MaxOps have.
Arrives == Len(msgs) + Len(http) < MaxOps

BackendNext ==
  \/ \E m \in BackendMessages : Arrives /\ Deliver(m)
  \/ \E req \in BackendConfigRequests : Arrives /\ PutConfig(req)
  \/ \E req \in BackendCommandRequests : Arrives /\ PostCommand(req)
  \/ \E i \in 1..MaxMsgs : StepUpdateBinLevel(i)
  \/ \E i \in 1..MaxMsgs : StepLogLevel(i)
  \/ \E i \in 1..MaxMsgs : StepGetBinById(i)
  \/ \E i \in 1..MaxMsgs : StepGetUserByRFID(i)
  \/ \E i \in 1..MaxMsgs : StepLogRfid(i)
  \/ \E i \in 1..MaxMsgs : StepUpdateBinStatus(i)
  \/ \E i \in 1..MaxMsgs : StepLogStatus(i)
  \/ \E i \in 1..MaxReqs : CfgGetBinById(i)
  \/ \E i \in 1..MaxReqs : CfgUpdateBinConfig(i)
  \/ \E i \in 1..MaxReqs : CfgGetUpdatedBin(i)
  \/ \E i \in 1..MaxReqs : CfgPublishConfig(i)
  \/ \E i \in 1..MaxReqs : CfgLogEvent(i)
  \/ \E i \in 1..MaxReqs : CmdGetBinById(i)
  \/ \E i \in 1..MaxReqs : CmdLogEvent(i)

BackendSpec == Init /\ [][BackendNext]_vars

(***************************************************************************)
(* The dashboard: its action.                                              *)
(***************************************************************************)
\* What the broker can hand to the dashboard: status and telemetry messages
\* of the devices.
WebMessages ==
  {Msg(StatusTopic("BIN_01"), p) :
     p \in {"online", "offline", Quote("online"), Quote("offline"), "null"}}
    \cup {Msg(StatusTopic("BIN_02"), p) : p \in {"online", "offline"}}
    \cup {Msg(StatusTopic("BIN_99"), "online")}
    \cup {Msg(LevelTopic("BIN_01"), p) : p \in {Reading(45, 110), Reading(85, 30), "{bad"}}
    \cup {Msg(LevelTopic("BIN_02"), Reading(85, 30))}

\* this.client.on('message', (topic, message) => this.handleMessage(topic, message))
WebMessage(m) ==
  /\ web.received < MaxWebMsgs
  /\ web' = webHandleMessage(web, m.topic, m.payload)
  /\ UNCHANGED <<bins, users, logs, published, msgs, proc, writer, now, http, esp, broker>>

WebNext == \E m \in WebMessages : WebMessage(m)

WebSpec == Init /\ [][WebNext]_vars

(***************************************************************************)
(* The device: its actions.                                                *)
(***************************************************************************)
\* One pass of loop() that reads msg from the session.  Without a session
\* the pass starts in reconnectMQTT, which returns once the broker has
\* accepted the connection.  A sensor or the reader supplies a value only to
\* a pass that reads it.  The clock is followed up to horizon.
Pass(msg, horizon) ==
  /\ esp.connected \/ broker.up
  /\ esp.millis < horizon
  /\ msg = NoMsg \/ msg.topic \in loopSession(esp).subscribed
  /\ LET s2 == loopMessages(loopSession(esp), msg)
     IN \E level \in IF TelemetryDue(s2) THEN Levels ELSE {0} :
          LET s3 == loopTelemetry(s2, level)
          IN \E prox \in IF PollsProximity(s3) THEN Distances ELSE {0} :
               LET s4 == loopProximity(s3, prox)
               IN \E card \in IF PollsRFID(s4) THEN Cards ELSE {""} :
                    esp' = OnGrid(loop(esp, Input(msg, level, prox, card)))
  /\ UNCHANGED <<bins, users, logs, published, msgs, proc, writer, now, http, broker, web>>

Loop(msg) == Pass(msg, MaxMillis)

\* A pass of loop() of a device that is left alone, followed for longer: two
\* telemetry periods.
QuietLoop == Pass(NoMsg, MaxQuietMillis)

\* reconnectMQTT while the broker does not accept the connection:
\* mqttClient.connect(...) fails, delay(5000), and the while loop goes round,
\* for as long as the broker refuses.  The clock is followed up to MaxMillis;
\* the broker's count of refused attempts is kept modulo 2.
ReconnectRetry ==
  /\ ~esp.connected
  /\ ~broker.up
  /\ esp' = IF esp.millis < MaxMillis THEN delay(esp, 5000) ELSE esp
  /\ broker' = [broker EXCEPT !.refused = 1 - @]
  /\ UNCHANGED <<bins, users, logs, published, msgs, proc, writer, now, http, web>>

\* The connection to the broker is lost, and the session with it.
LinkDown ==
  /\ broker.up
  /\ broker' = [broker EXCEPT !.up = FALSE]
  /\ esp' = [esp EXCEPT !.connected = FALSE, !.will = Null, !.subscribed = {}]
  /\ UNCHANGED <<bins, users, logs, published, msgs, proc, writer, now, http, web>>

\* The broker can be reached again.
LinkUp ==
  /\ ~broker.up
  /\ broker' = [broker EXCEPT !.up = TRUE]
  /\ UNCHANGED <<bins, users, logs, published, msgs, proc, writer, now, http, esp, web>>

\* The device with a broker that stays up.
DeviceNext == \E msg \in Inbound \cup {NoMsg} : Loop(msg)

DeviceSpec == Init /\ [][DeviceNext]_vars

\* The device with a broker that can be lost; the only messages are open
\* commands.
OutageInbound ==
  {NoMsg, Msg(TOPIC_CMD, DocText[Doc(Str("open"), Undefined, Undefined, Undefined)])}

\* The steps the device's processor takes.
DeviceRun == (\E msg \in OutageInbound : Loop(msg)) \/ ReconnectRetry

OutageNext ==
  \/ \E msg \in OutageInbound : Loop(msg)
  \/ ReconnectRetry
  \/ LinkDown
  \/ LinkUp

\* The processor never stops: loop() is called again and again.
DeviceLive == Init /\ [][OutageNext]_vars /\ WF_vars(DeviceRun)

\* The servo stops answering: from now on lidServo.attach fails.
ServoFails ==
  /\ esp.servoOk
  /\ esp' = [esp EXCEPT !.servoOk = FALSE]
  /\ UNCHANGED <<bins, users, logs, published, msgs, proc, writer, now, http, broker, web>>

\* The servo answers again.
ServoRecovers ==
  /\ ~esp.servoOk
  /\ esp' = [esp EXCEPT !.servoOk = TRUE]
  /\ UNCHANGED <<bins, users, logs, published, msgs, proc, writer, now, http, broker, web>>

\* The device with a servo that can fail; the messages are open and close
\* commands.
ServoInbound ==
  {NoMsg, Msg(TOPIC_CMD, DocText[Doc(Str("open"), Undefined, Undefined, Undefined)]),
   Msg(TOPIC_CMD, DocText[Doc(Str("close"), Str("manual_control"), Undefined, Undefined)])}

ServoNext ==
  \/ \E msg \in ServoInbound : Loop(msg)
  \/ ServoFails
  \/ ServoRecovers

ServoSpec == Init /\ [][ServoNext]_vars

\* The device with no message from the backend.
QuietNext == QuietLoop

QuietSpec == Init /\ [][QuietNext]_vars

\* The config messages the backend can have published, retained, for the
\* device's bin (mqttClient.js publishConfig, retain: true).
RetainedConfigs ==
  { Msg(TOPIC_CONFIG, DocText[Doc(Undefined, Undefined, Str("AUTH"), Num(50))]),
    Msg(TOPIC_CONFIG, DocText[Doc(Undefined, Undefined, Str("AUTO"), Num(30))]) }

\* The broker comes to retain cfg while the device has no session.
ConfigRetained(cfg) ==
  /\ ~esp.connected
  /\ broker.retained = NoMsg
  /\ broker' = [broker EXCEPT !.retained = cfg]
  /\ UNCHANGED <<bins, users, logs, published, msgs, proc, writer, now, http, esp, web>>

\* What mqttClient.loop() can read in a pass: nothing, an open command, or
\* the retained config the broker sends in answer to the SUBSCRIBE, which is
\* on its way from the pass that subscribes until a pass reads it.
SessionInbound ==
  OutageInbound
    \cup (IF broker.retained # NoMsg /\ (broker.owed \/ ~esp.connected)
          THEN {broker.retained} ELSE {})

\* One pass of loop() with a broker that retains a config message.
SessionPass(msg) ==
  /\ broker.up
  /\ esp.millis < MaxMillis
  /\ msg \in SessionInbound
  /\ LET s2 == loopMessages(loopSession(esp), msg)
     IN \E level \in IF TelemetryDue(s2) THEN Levels ELSE {0} :
          LET s3 == loopTelemetry(s2, level)
          IN \E prox \in IF PollsProximity(s3) THEN Distances ELSE {0} :
               LET s4 == loopProximity(s3, prox)
               IN \E card \in IF PollsRFID(s4) THEN Cards ELSE {""} :
                    esp' = OnGrid(loop(esp, Input(msg, level, prox, card)))
  /\ broker' = [broker EXCEPT !.owed = IF msg # NoMsg /\ msg = broker.retained THEN FALSE
                                       ELSE IF ~esp.connected THEN broker.retained # NoMsg
                                       ELSE @]
  /\ UNCHANGED <<bins, users, logs, published, msgs, proc, writer, now, http, web>>

\* The device and a broker that retains a config message and can be lost.
RetainedNext ==
  \/ \E cfg \in RetainedConfigs : ConfigRetained(cfg)
  \/ \E msg \in OutageInbound \cup RetainedConfigs : SessionPass(msg)
  \/ LinkDown
  \/ LinkUp

RetainedSpec == Init /\ [][RetainedNext]_vars

(***************************************************************************)
(* The system: one device and the backend, joined by the broker.           *)
(***************************************************************************)
\* A value of the backend's payload object as the device's parser finds it.
AsScalar(v) == IF v = Null THEN Undefined ELSE Str(v[1])

\* JSON.stringify(command) as far as the device reads it: the keys action and
\* reason (user and ts are in the text and are never looked up).
CommandText(command) ==
  serializeJson(Doc(AsScalar(command.action), AsScalar(command.reason), Undefined, Undefined))

\* The commands the backend has published, as the broker hands them on.
CommandsOut ==
  {Msg(published[k].topic, CommandText(published[k].payload)) :
     k \in {x \in DOMAIN published : published[x].payload.action # Null}}

\* What the device has published for the backend: its scans and its status.
\* (Telemetry takes no part in the authorization and is left out here.)
DeviceOut ==
  {Msg(m.topic, m.payload) :
     m \in {x \in esp.sent : x.topic \in {TOPIC_RFID, TOPIC_STATUS}}}

\* One pass of loop() of the device; what it reads is a command the backend
\* has published or a config message.  Delivery is at least once: a message
\* can be read late and more than once.
SystemPass(msg) ==
  /\ msg \in {NoMsg} \cup RetainedConfigs \cup CommandsOut
  /\ Pass(msg, MaxMillis)

\* The backend receives a message the device has published, possibly again.
SystemDeliver(m) ==
  /\ m \in DeviceOut
  /\ Deliver(m)

SystemNext ==
  \/ \E msg \in Inbound \cup {NoMsg} : SystemPass(msg)
  \/ \E m \in Messages : SystemDeliver(m)
  \/ \E i \in 1..MaxMsgs : StepGetBinById(i)
  \/ \E i \in 1..MaxMsgs : StepGetUserByRFID(i)
  \/ \E i \in 1..MaxMsgs : StepLogRfid(i)

SystemSpec == Init /\ [][SystemNext]_vars

\* The device has published an rfid_check.
Scanned == \E m \in esp.sent : m.topic = TOPIC_RFID

\* One pass of loop() of a device that one person uses once: nobody is near
\* the proximity sensor, and a card is held to the reader in at most one pass
\* of the behaviour.  What the pass reads is the config message that sets AUTH
\* mode or a command the backend has published, delivered at least once.
ScanPass(msg) ==
  /\ esp.connected \/ broker.up
  /\ esp.millis < MaxQuietMillis
  /\ msg \in {NoMsg, Msg(TOPIC_CONFIG, DocText[Doc(Undefined, Undefined, Str("AUTH"), Num(50))])}
              \cup CommandsOut
  /\ msg = NoMsg \/ msg.topic \in loopSession(esp).subscribed
  /\ LET s4 == loopProximity(loopTelemetry(loopMessages(loopSession(esp), msg), 0), 0)
     IN \E card \in IF PollsRFID(s4) /\ ~Scanned THEN Cards ELSE {""} :
          esp' = OnGrid(loop(esp, Input(msg, 0, 0, card)))
  /\ UNCHANGED <<bins, users, logs, published, msgs, proc, writer, now, http, broker, web>>

ScanOnceNext ==
  \/ \E msg \in Inbound \cup {NoMsg} : ScanPass(msg)
  \/ \E m \in Messages : SystemDeliver(m)
  \/ \E i \in 1..MaxMsgs : StepGetBinById(i)
  \/ \E i \in 1..MaxMsgs : StepGetUserByRFID(i)
  \/ \E i \in 1..MaxMsgs : StepLogRfid(i)

ScanOnceSpec == Init /\ [][ScanOnceNext]_vars

\* Every distance the level sensor can report up to just beyond the bin's
\* height.
\* The device with a broker that also hands it what the sketch has to
\* reject: the documents of InvalidDocs, and a payload that is no JSON text,
\* on either topic.  The sensors see nothing and no card is shown.
MalformedInbound ==
  { Msg(TOPIC_CMD, DocText[Doc(Str("toggle"), Str("manual_control"), Undefined, Undefined)]),
    Msg(TOPIC_CONFIG, DocText[Doc(Undefined, Undefined, Str("MANUAL"), Num(40))]),
    Msg(TOPIC_CMD, "{action:"), Msg(TOPIC_CONFIG, "{action:") }

MalformedPass(msg) ==
  /\ esp.connected \/ broker.up
  /\ esp.millis < MaxMillis
  /\ msg = NoMsg \/ msg.topic \in loopSession(esp).subscribed
  /\ esp' = OnGrid(loop(esp, Input(msg, 0, 0, "")))
  /\ UNCHANGED <<bins, users, logs, published, msgs, proc, writer, now, http, broker, web>>

MalformedNext == \E msg \in Inbound \cup MalformedInbound \cup {NoMsg} : MalformedPass(msg)

MalformedSpec == Init /\ [][MalformedNext]_vars

SensorRange == 0..(BIN_HEIGHT_CM + 1)

\* A pass of loop() in which telemetry is due and the level sensor reports
\* distanceCm; nobody is near the bin.
LevelReading(distanceCm) ==
  /\ esp.connected \/ broker.up
  /\ esp.millis < MaxQuietMillis
  /\ TelemetryDue(loopSession(esp))
  /\ esp' = OnGrid(loop(esp, Input(NoMsg, distanceCm, 0, "")))
  /\ UNCHANGED <<bins, users, logs, published, msgs, proc, writer, now, http, broker, web>>

\* The device left alone, with every reading of the level sensor.
SensorNext ==
  \/ QuietLoop
  \/ \E distanceCm \in SensorRange : LevelReading(distanceCm)

SensorSpec == Init /\ [][SensorNext]_vars

(***************************************************************************)
(* Properties.  What a message is is read off its text here, not taken     *)
(* from what the dispatcher made of it.                                    *)
(***************************************************************************)
Finished(i) == i \in DOMAIN proc /\ proc[i].pc = "returned"

AllFinished == \A i \in DOMAIN proc : Finished(i)

\* Rows of logs / publishes made while handling message i.
LogsOf(i) == {k \in DOMAIN logs : logs[k].src = i}

PubsOf(i) == {k \in DOMAIN published : published[k].src = i}

\* Message i made no UPDATE that is the latest on some row.
WroteNothing(i) == \A b \in DOMAIN writer : writer[b].level # i /\ writer[b].status # i

NoEffect(i) == LogsOf(i) = {} /\ PubsOf(i) = {} /\ WroteNothing(i)

StoreUntouched ==
  bins = InitBins /\ users = InitUsers /\ logs = << >> /\ published = << >>

ScannedUids == {"A1B2C3D4", "E5F6A7B8", "DEADBEEF", "0BADF00D", ""}

IsActiveUid(u) == \E r \in users : r.rfid_uid = u /\ r.is_active

\* The topics of bin b, written out.
TopicsOf ==
  [b \in BinIds |->
     [level |-> "smartbin/" \o b \o "/data/level", rfid |-> "smartbin/" \o b \o "/rfid_check",
      status |-> "smartbin/" \o b \o "/status", cmd |-> "smartbin/" \o b \o "/cmd",
      alert |-> "smartbin/" \o b \o "/alert"]]

\* The payload of a scan of uid u, written out.
ScanPayload ==
  [u \in ScannedUids \cup {r.rfid_uid : r \in InitUsers} |-> "{\"uid\":\"" \o u \o "\"}"]

\* Message i is an rfid_check on bin b carrying uid u.
IsScan(i, b, u) == msgs[i].topic = TopicsOf[b].rfid /\ msgs[i].payload = ScanPayload[u]

\* C1: an rfid_check on a bin of the store whose uid is an active credential
\* yields exactly one publish, an open command on the bin's cmd topic with
\* reason rfid_authorized and the holder's name, exactly one log row with
\* success = true naming the holder, and no alert.
C1_AuthorizedScanOpens ==
  \A i \in DOMAIN msgs : \A b \in DOMAIN bins : \A r \in users :
    (Finished(i) /\ msgs[i].topic = TopicsOf[b].rfid /\ r.is_active
       /\ IsScan(i, b, r.rfid_uid))
      => /\ Cardinality(PubsOf(i)) = 1
         /\ \A k \in PubsOf(i) :
              /\ published[k].topic = TopicsOf[b].cmd
              /\ published[k].payload.action = Some("open")
              /\ published[k].payload.reason = Some("rfid_authorized")
              /\ published[k].payload.user = Some(r.name)
              /\ published[k].payload.type = Null
         /\ Cardinality(LogsOf(i)) = 1
         /\ \A k \in LogsOf(i) :
              /\ logs[k].bin_id = b
              /\ logs[k].success = TRUE
              /\ logs[k].user_name = Some(r.name)
              /\ logs[k].rfid_uid = Some(r.rfid_uid)

C1_Witness ==
  \E i \in DOMAIN msgs :
    /\ Finished(i)
    /\ IsScan(i, "BIN_01", "A1B2C3D4")
    /\ PubsOf(i) # {}
    /\ LogsOf(i) # {}

\* What C2 promises for message i, a scan of uid u on bin b.
DeniedOnce(i, b, u) ==
  /\ Cardinality(PubsOf(i)) = 1
  /\ \A k \in PubsOf(i) :
       /\ published[k].topic = TopicsOf[b].alert
       /\ published[k].payload.type = Some("unauthorized_access")
       /\ published[k].payload.uid = Some(u)
       /\ published[k].payload.action = Null
  /\ Cardinality(LogsOf(i)) = 1
  /\ \A k \in LogsOf(i) :
       logs[k].bin_id = b /\ logs[k].success = FALSE /\ logs[k].rfid_uid = Some(u)

\* C2 as claimed: an rfid_check on a bin of the store whose uid is absent from
\* the store or inactive yields exactly one unauthorized-access alert carrying
\* the uid, exactly one log row with success = false, and no command.
C2_AsClaimed ==
  \A i \in DOMAIN msgs : \A b \in DOMAIN bins : \A u \in ScannedUids :
    (Finished(i) /\ IsScan(i, b, u) /\ ~IsActiveUid(u)) => DeniedOnce(i, b, u)

\* C2 amended: the same for every such rfid_check whose uid is not empty; an
\* rfid_check whose uid is empty or missing is dropped with no alert and no
\* log row.
C2_UnknownScanAlerts ==
  /\ \A i \in DOMAIN msgs : \A b \in DOMAIN bins : \A u \in ScannedUids :
       (Finished(i) /\ IsScan(i, b, u) /\ ~IsActiveUid(u))
         => IF u = "" THEN NoEffect(i) ELSE DeniedOnce(i, b, u)
  /\ \A i \in DOMAIN msgs : \A b \in DOMAIN bins :
       (msgs[i].topic = TopicsOf[b].rfid /\ msgs[i].payload = "{\"level\":85,\"cm\":30}")
         => (Finished(i) /\ NoEffect(i))

C2_Witness ==
  \E i, j \in DOMAIN msgs :
    /\ Finished(i) /\ IsScan(i, "BIN_01", "DEADBEEF") /\ PubsOf(i) # {}
    /\ Finished(j) /\ IsScan(j, "BIN_01", "0BADF00D") /\ PubsOf(j) # {}

\* Message i is on the rfid_check topic of a bin that is not in the store.
IsUnknownBinScan(i) ==
  \E b \in BinIds \ DOMAIN bins : msgs[i].topic = TopicsOf[b].rfid

\* C3: an rfid_check whose bin is not in the store is dropped, whatever its
\* uid: no log row, no publish, no write to a bin or a credential; a run of
\* such messages only leaves the store as it was.
C3_UnknownBinScanDropped ==
  /\ \A i \in DOMAIN msgs : (Finished(i) /\ IsUnknownBinScan(i)) => NoEffect(i)
  /\ users = InitUsers
  /\ (\A i \in DOMAIN msgs : IsUnknownBinScan(i)) => StoreUntouched

C3_Witness ==
  \E i \in DOMAIN msgs :
    /\ Finished(i)
    /\ IsScan(i, "BIN_99", "A1B2C3D4")
    /\ proc[i].handler = "handleRFIDCheck"

\* Payload values that are telemetry with numeric level and cm, and those
\* in which one of the two is not a number.
NumericReadings == {v \in Readings : v.level.t = "number" /\ v.cm.t = "number"}

NonNumericReadings == Readings \ NumericReadings

\* Message i is telemetry for bin b carrying the value v.
IsReading(i, b, v) == msgs[i].topic = TopicsOf[b].level /\ msgs[i].payload = JsonText[v]

FullAlerts(b) ==
  {k \in DOMAIN published :
     /\ published[k].topic = TopicsOf[b].alert
     /\ published[k].payload.type = Some("full_warning")}

\* What C4 promises for message i, telemetry for bin b carrying v.
AlertedPerReading(i, b, v) ==
  IF v.level.n >= 80
  THEN /\ Cardinality(LogsOf(i)) = 1
       /\ \A k \in LogsOf(i) :
            logs[k].bin_id = b /\ logs[k].level_percent = Some(v.level.n)
       /\ Cardinality(PubsOf(i)) = 1
       /\ PubsOf(i) \subseteq FullAlerts(b)
  ELSE LogsOf(i) = {} /\ PubsOf(i) = {}

\* C4 as claimed: every numeric reading with level >= 80 yields exactly one
\* log row and exactly one full-bin alert, every one below 80 yields none.
C4_AsClaimed ==
  \A i \in DOMAIN msgs : \A b \in BinIds : \A v \in NumericReadings :
    (Finished(i) /\ IsReading(i, b, v)) => AlertedPerReading(i, b, v)

\* C4 amended: that holds for the readings of a bin that is in the store, and
\* per reading: once all are handled, the full-bin alerts of a bin are as many
\* as its readings at or above 80.
C4_AlertPerReading ==
  /\ \A i \in DOMAIN msgs : \A b \in DOMAIN bins : \A v \in NumericReadings :
       (Finished(i) /\ IsReading(i, b, v)) => AlertedPerReading(i, b, v)
  /\ AllFinished =>
       \A b \in DOMAIN bins :
         Cardinality(FullAlerts(b)) =
           Cardinality({i \in DOMAIN msgs :
                          \E v \in NumericReadings : IsReading(i, b, v) /\ v.level.n >= 80})

C4_Witness ==
  /\ Len(msgs) >= 2
  /\ AllFinished
  /\ \A i \in DOMAIN msgs :
       \E v \in NumericReadings : IsReading(i, "BIN_01", v) /\ v.level.n >= 80
  /\ Cardinality(FullAlerts("BIN_01")) >= 2

\* The last message of the run that is a numeric reading for bin b, or 0.
LastReading(b) ==
  LET R == {i \in DOMAIN msgs : \E v \in NumericReadings : IsReading(i, b, v)}
  IN IF R = {} THEN 0 ELSE CHOOSE i \in R : \A j \in R : j <= i

Shows(b, i, v) ==
  /\ bins[b].current_level_percent = v.level.n
  /\ bins[b].current_distance_cm = v.cm.n
  /\ bins[b].last_seen # Null
  /\ bins[b].last_seen[1] >= i

\* C5: a reading with numeric level and cm overwrites the bin's level and
\* distance with its values and refreshes last_seen, below the threshold too;
\* when messages are handled one after the other the store shows the values of
\* the last reading (45 then 85: level 85, one alert, one log row with 85).
C5_ReadingOverwrites ==
  /\ \A b \in DOMAIN bins :
       writer[b].level # 0 =>
         \E v \in NumericReadings :
           IsReading(writer[b].level, b, v) /\ Shows(b, writer[b].level, v)
  /\ \A i \in DOMAIN msgs : \A b \in DOMAIN bins : \A v \in NumericReadings :
       (Finished(i) /\ IsReading(i, b, v)) => writer[b].level # 0
  /\ (AllFinished /\ \A i \in DOMAIN proc : proc[i].quiet) =>
       \A b \in DOMAIN bins :
         LastReading(b) # 0 =>
           \E v \in NumericReadings :
             IsReading(LastReading(b), b, v) /\ Shows(b, LastReading(b), v)
  /\ ( /\ Len(msgs) = 2
       /\ AllFinished
       /\ proc[2].quiet
       /\ IsReading(1, "BIN_01", JsObject(Num(45), Num(110), Undefined))
       /\ IsReading(2, "BIN_01", JsObject(Num(85), Num(30), Undefined)) )
     => /\ bins["BIN_01"].current_level_percent = 85
        /\ Cardinality(FullAlerts("BIN_01")) = 1
        /\ Len(published) = 1
        /\ Len(logs) = 1
        /\ logs[1].level_percent = Some(85)

C5_Witness ==
  /\ Len(msgs) = 2
  /\ AllFinished
  /\ proc[2].quiet
  /\ IsReading(1, "BIN_01", JsObject(Num(45), Num(110), Undefined))
  /\ IsReading(2, "BIN_01", JsObject(Num(85), Num(30), Undefined))
  /\ bins["BIN_01"].current_distance_cm = 30

\* Message i is a status message for bin b whose payload is the literal text.
IsStatus(i, b, text) == msgs[i].topic = TopicsOf[b].status /\ msgs[i].payload = text

\* C6: a status message with the literal payload offline sets is_online to
\* false, refreshes last_seen and appends exactly one log row; a following one
\* with the literal payload online sets is_online to true and appends another.
C6_PresenceTracked ==
  \A i \in DOMAIN msgs : \A b \in DOMAIN bins :
    /\ (Finished(i) /\ IsStatus(i, b, "offline"))
         => /\ Cardinality(LogsOf(i)) = 1
            /\ bins[b].last_seen # Null
            /\ writer[b].status = i => ~bins[b].is_online
    /\ (Finished(i) /\ IsStatus(i, b, "online"))
         => /\ Cardinality(LogsOf(i)) = 1
            /\ writer[b].status = i
            /\ (proc[i].quiet /\ i = Len(msgs)) => bins[b].is_online

\* The text is the JSON text of no value.
NotJson(text) == \A v \in JsonValues : JsonText[v] # text

IsTelemetryOrScanTopic(topic) ==
  \E b \in BinIds : topic = TopicsOf[b].level \/ topic = TopicsOf[b].rfid

\* C7: a message on a telemetry or rfid_check topic whose payload does not
\* parse is dropped inside handleMessage: the call returns at the parse step,
\* no handler is invoked, nothing is written, logged or published.
C7_MalformedDropped ==
  /\ \A i \in DOMAIN msgs :
       (IsTelemetryOrScanTopic(msgs[i].topic) /\ NotJson(msgs[i].payload))
         => /\ Finished(i)
            /\ proc[i].handler = "none"
            /\ proc[i].exit = "invalid_json"
            /\ NoEffect(i)
  /\ (\A i \in DOMAIN msgs :
        IsTelemetryOrScanTopic(msgs[i].topic) /\ NotJson(msgs[i].payload))
       => StoreUntouched

C7_Witness ==
  /\ Len(msgs) = 2
  /\ msgs[1] = Msg("smartbin/BIN_01/data/level", "{bad")
  /\ msgs[2] = Msg("smartbin/BIN_01/rfid_check", "{bad")
  /\ AllFinished

\* The segments of each topic text.
Segments ==
  [t \in {TopicText[segs] : segs \in TopicParts} |->
     CHOOSE segs \in TopicParts : TopicText[segs] = t]

SegmentsOf(i) == Segments[msgs[i].topic]

\* The handler each topic selects, "none" if it selects none.
HandlerByTopic ==
  [t \in DOMAIN Segments |->
     LET segs == Segments[t]
     IN IF Len(segs) < 3 THEN "none"
        ELSE IF segs[3] = "data"
             THEN (IF Len(segs) >= 4 /\ segs[4] = "level" THEN "handleLevelData"
                   ELSE "none")
        ELSE IF segs[3] = "rfid_check" THEN "handleRFIDCheck"
        ELSE IF segs[3] = "status" THEN "handleStatusUpdate"
        ELSE "none"]

HandlerFor(i) == HandlerByTopic[msgs[i].topic]

EventTypeOf(handler) ==
  CASE handler = "handleLevelData" -> "level_update"
    [] handler = "handleRFIDCheck" -> "rfid_scan"
    [] handler = "handleStatusUpdate" -> "alert"
    [] OTHER -> ""

\* C8: handleMessage invokes at most one handler per message, the one its
\* third topic segment selects (data/level, rfid_check, status); every effect
\* of the message is that handler's; a topic with fewer than three segments,
\* an unknown class or a data subclass other than level invokes none and has
\* no effect.
C8_RoutedByTopic ==
  \A i \in DOMAIN msgs :
    LET h == HandlerFor(i)
    IN /\ proc[i].handler \in {"none", h}
       /\ \A k \in LogsOf(i) : logs[k].event_type = EventTypeOf(h)
       /\ h # "handleLevelData" => \A b \in DOMAIN writer : writer[b].level # i
       /\ h # "handleStatusUpdate" => \A b \in DOMAIN writer : writer[b].status # i
       /\ h = "handleStatusUpdate" => PubsOf(i) = {}
       /\ h = "none" => (Finished(i) /\ NoEffect(i))

C8_Witness ==
  /\ Len(msgs) = 2
  /\ Len(SegmentsOf(1)) = 2
  /\ SegmentsOf(2) = <<"smartbin", "BIN_01", "data", "temp">>
  /\ AllFinished

\* C9: telemetry in which level or cm is not a number is discarded: the bin's
\* level, distance and last_seen stay as they were, no log row, no alert.
C9_NonNumericDiscarded ==
  /\ \A i \in DOMAIN msgs : \A b \in BinIds : \A v \in NonNumericReadings :
       IsReading(i, b, v) => (Finished(i) /\ NoEffect(i))
  /\ (\A i \in DOMAIN msgs : \E b \in BinIds : \E v \in NonNumericReadings :
        IsReading(i, b, v))
       => StoreUntouched

C9_Witness ==
  /\ Len(msgs) = 2
  /\ IsReading(1, "BIN_01", JsObject(Str("85"), Num(30), Undefined))
  /\ IsReading(2, "BIN_01", JsObject(Num(85), Undefined, Undefined))
  /\ proc[1].handler = "handleLevelData"
  /\ proc[2].handler = "handleLevelData"

\* C10: in every state of the store each bin's fill percentage is within
\* [0,100]; a reading with a level outside that range is never persisted.
C10_LevelInRange ==
  \A b \in DOMAIN bins :
    bins[b].current_level_percent >= 0 /\ bins[b].current_level_percent <= 100

\* The bin a message is for: the second segment of its topic.
BinOf(i) == IF Len(SegmentsOf(i)) >= 2 THEN SegmentsOf(i)[2] ELSE ""

\* Message i still has a store write, a log row or a publish to make.
EffectsPending(i) == ~Finished(i) /\ BinOf(i) \in DOMAIN bins

\* The last message of the run whose status handler ran for bin b, or 0.
LastStatus(b) ==
  LET S == {i \in DOMAIN msgs :
              msgs[i].topic = TopicsOf[b].status /\ proc[i].handler = "handleStatusUpdate"}
  IN IF S = {} THEN 0 ELSE CHOOSE i \in S : \A j \in S : j <= i

\* C11: messages for the same bin are processed in arrival order: when m1
\* arrives before m2 for the same bin, m2 makes no store write, log row or
\* publish while m1 still has one to make, and once every handler has returned
\* the bin's level and distance are those of the last reading and its online
\* flag was written by the last status message.
C11_ArrivalOrder ==
  /\ \A i, j \in DOMAIN msgs :
       (i < j /\ BinOf(i) = BinOf(j) /\ ~NoEffect(j)) => ~EffectsPending(i)
  /\ AllFinished =>
       \A b \in DOMAIN bins :
         /\ LastReading(b) # 0 =>
              \E v \in NumericReadings :
                IsReading(LastReading(b), b, v) /\ Shows(b, LastReading(b), v)
         /\ LastStatus(b) # 0 => writer[b].status = LastStatus(b)

(***************************************************************************)
(* Properties of the configuration route.                                  *)
(***************************************************************************)
Responded(i) == i \in DOMAIN http /\ http[i].pc = "responded"

\* The allow-list of the configuration update, and the fields of it that a
\* body supplies.
AllowList == {"mode", "threshold_cm", "capacity_cm", "name", "location"}

Supplied(body) == {f \in AllowList : body[f].t # "undefined"}

\* Request i made no UPDATE that is the latest on some row.
WroteNoConfig(i) == \A b \in DOMAIN writer : writer[b].config # i

\* C12: a configuration update that supplies no field of the allow-list is
\* rejected: its handler never reaches the UPDATE, answers with an error,
\* changes no bin, publishes nothing and logs nothing.
C12_NoFieldRejected ==
  /\ \A i \in DOMAIN http :
       Supplied(http[i].body) = {}
         => /\ http[i].pc \in {"getBinById", "responded"}
            /\ Responded(i) => http[i].status \in {404, 500}
            /\ http[i].after = Null
            /\ WroteNoConfig(i)
            /\ PubsOf(i) = {}
            /\ LogsOf(i) = {}
  /\ (\A i \in DOMAIN http : Supplied(http[i].body) = {}) => StoreUntouched

C12_Witness ==
  /\ Len(http) = 2
  /\ \A i \in DOMAIN http : Responded(i) /\ http[i].binId = "BIN_01" /\ http[i].status = 500
  /\ http[1].body = Body(Undefined, Undefined, Undefined, Undefined, Undefined, Str("true"))
  /\ http[2].body = Body(Undefined, Undefined, Undefined, Undefined, Undefined, Undefined)

\* The value a supplied field asks for.
Asked(v) == IF v.t = "number" THEN v.n ELSE v.s

\* The UPDATE of request i changed the fields in the set F of its bin to the
\* values of its body and nothing else, in that row or any other.
ChangedExactly(i, F) ==
  LET before == http[i].before[1]
      after == http[i].after[1]
  IN \A x \in DOMAIN before : \A f \in DOMAIN before[x] :
       after[x][f] = IF x = http[i].binId /\ f \in F THEN Asked(http[i].body[f])
                     ELSE before[x][f]

ConfigTopics == [b \in BinIds |-> "smartbin/" \o b \o "/config"]

\* Request i published one retained config message with QoS 1 for its bin,
\* and while its UPDATE is the latest on the bin the message carries the
\* stored mode and threshold.
PublishedConfig(i) ==
  LET b == http[i].binId
  IN /\ Cardinality(PubsOf(i)) = 1
     /\ \A k \in PubsOf(i) :
          /\ published[k].topic = ConfigTopics[b]
          /\ published[k].retain
          /\ published[k].qos = 1
          /\ writer[b].config = i =>
               /\ published[k].payload.mode = bins[b].mode
               /\ published[k].payload.threshold = bins[b].threshold_cm

SuppliedNonEmpty(body) ==
  {f \in Supplied(body) : f \in {"mode", "name", "location"} => body[f] # Str("")}

C14_OnlyConfigRetained ==
  /\ \A k \in DOMAIN published :
       published[k].retain => \E b \in BinIds : published[k].topic = ConfigTopics[b]
  /\ \A m \in esp.sent :
       m.retained => \E b \in BinIds : m.topic = ConfigTopics[b]

\* The action of the command the last pass of loop() read, "" when it read
\* none (no packet, a config message, or a text that does not parse).
CommandOf(msg) ==
  IF msg.topic = TOPIC_CMD THEN OrElse(deserializeJson(msg.payload).action, "") ELSE ""

\* The proximity poll of the last pass ran in AUTO mode with the lid closed
\* and the debounce interval over, and read a distance within the threshold.
ProximityPassed ==
  /\ esp.it.poll.mode = "AUTO"
  /\ ~esp.it.poll.openBefore
  /\ esp.it.poll.at - esp.it.poll.last >= PROXIMITY_DEBOUNCE_MS
  /\ 0 < esp.it.in.prox
  /\ esp.it.in.prox <= esp.it.poll.threshold

\* C15: with the lid closed an open command opens it, in either mode and for
\* any reason, and in AUTO mode so does a proximity reading d with
\* 0 < d <= threshold that passes the debounce; with the lid open a close
\* command closes it.
C15_CommandsAndProximityMove ==
  /\ CommandOf(esp.it.in.msg) = "open" /\ ~esp.it.cb.openBefore
       => esp.it.cb.openAfter /\ esp.it.cb.writes = 1
  /\ CommandOf(esp.it.in.msg) = "close" /\ esp.it.cb.openBefore
       => ~esp.it.cb.openAfter /\ esp.it.cb.writes = 1
  /\ ProximityPassed => esp.it.poll.openAfter /\ esp.it.poll.writes = 1

\* An open command without a reason has opened the closed lid in AUTH mode.
C15_Witness ==
  /\ esp.BIN_MODE = "AUTH"
  /\ esp.it.in.msg = Msg(TOPIC_CMD, DocText[Doc(Str("open"), Undefined, Undefined, Undefined)])
  /\ ~esp.it.cb.openBefore
  /\ esp.it.cb.openAfter
  /\ esp.isLidOpen
  /\ esp.angle = 120

\* C16: a command received while the lid is already in the target state (open
\* while open, close while closed) changes neither the lid state nor the
\* auto-close start time and does not drive the actuator again.
C16_TargetStateNoOp ==
  /\ CommandOf(esp.it.in.msg) = "open" /\ esp.it.cb.openBefore
       => /\ esp.it.cb.openAfter
          /\ esp.it.cb.startAfter = esp.it.cb.startBefore
          /\ esp.it.cb.writes = 0
  /\ CommandOf(esp.it.in.msg) = "close" /\ ~esp.it.cb.openBefore
       => /\ ~esp.it.cb.openAfter
          /\ esp.it.cb.startAfter = esp.it.cb.startBefore
          /\ esp.it.cb.writes = 0

\* The proximity sensor read a distance within the threshold in the last pass
\* of loop(), in AUTO mode, after an earlier trigger had been honored.
TriggerAgain ==
  /\ esp.it.poll.mode = "AUTO"
  /\ esp.it.poll.trigger # Null
  /\ 0 < esp.it.in.prox
  /\ esp.it.in.prox <= esp.it.poll.threshold

PollChangedNothing ==
  /\ esp.it.poll.openAfter = esp.it.poll.openBefore
  /\ esp.it.poll.writes = 0
  /\ esp.trigger = esp.it.poll.trigger

PollOpened ==
  /\ esp.it.poll.openAfter
  /\ esp.it.poll.writes = 1
  /\ esp.trigger = Some(esp.it.poll.at)

\* C17 as the claim states it: in AUTO mode a reading within the threshold
\* less than PROXIMITY_DEBOUNCE_MS after the previously honored trigger never
\* changes the lid state; one at or beyond the interval, with the lid closed,
\* opens the lid and becomes the new honored trigger.
C17_AsClaimed ==
  /\ TriggerAgain /\ esp.it.poll.at - esp.it.poll.trigger[1] < PROXIMITY_DEBOUNCE_MS
       => PollChangedNothing
  /\ TriggerAgain /\ esp.it.poll.at - esp.it.poll.trigger[1] >= PROXIMITY_DEBOUNCE_MS
       /\ ~esp.it.poll.openBefore
       => PollOpened

\* C17: in AUTO mode a reading within the threshold less than
\* PROXIMITY_DEBOUNCE_MS after the lid finished opening on the previously
\* honored trigger never changes the lid state; one at or beyond that
\* interval, with the lid closed, opens the lid and becomes the new honored
\* trigger.
C17_DebouncedFromOpening ==
  /\ TriggerAgain /\ esp.it.poll.at - esp.it.poll.done[1] < PROXIMITY_DEBOUNCE_MS
       => PollChangedNothing
  /\ TriggerAgain /\ esp.it.poll.at - esp.it.poll.done[1] >= PROXIMITY_DEBOUNCE_MS
       /\ ~esp.it.poll.openBefore
       => PollOpened

\* A second trigger was honored after the debounce interval, the lid having
\* been closed in between.
C17_Witness ==
  /\ TriggerAgain
  /\ esp.it.poll.at - esp.it.poll.done[1] >= PROXIMITY_DEBOUNCE_MS
  /\ ~esp.it.poll.openBefore
  /\ esp.it.poll.openAfter
  /\ esp.trigger = Some(esp.it.poll.at)
  /\ esp.trigger # esp.it.poll.trigger

C19_EventuallyCloses ==
  (esp.isLidOpen /\ esp.lidOpenTime + LID_AUTO_CLOSE_MS + GridMs <= MaxMillis)
    ~> (~esp.isLidOpen \/ (broker.up /\ esp.millis >= MaxMillis))

\* The rfid_check request the device publishes for a card.
RfidCheck(card) ==
  [topic |-> TOPIC_RFID,
   payload |-> JSON_stringify(JsObject(Undefined, Undefined, Str(card))),
   retained |-> FALSE]

\* The last pass of loop() ran its sensor and reader polls in AUTH mode.
PolledInAuth == esp.it.poll.mode = "AUTH"

\* C20: in AUTH mode no proximity reading changes the lid state and a card
\* scan never opens the lid by itself: the scan only publishes an rfid_check
\* request, and the lid opens only when an open command is received.
C20_AuthOpensOnCommandOnly ==
  /\ PolledInAuth
       => /\ esp.it.poll.openAfter = esp.it.poll.openBefore
          /\ esp.it.poll.writes = 0
  /\ PolledInAuth /\ ~esp.it.poll.openBefore /\ esp.it.in.card # ""
       => /\ esp.it.poll.sends = 1
          /\ RfidCheck(esp.it.in.card) \in esp.sent
  /\ PolledInAuth /\ ~esp.it.cb.openBefore /\ esp.isLidOpen
       => CommandOf(esp.it.in.msg) = "open"

\* A card was scanned in AUTH mode: the request went out and the lid stayed
\* closed.
C20_Witness ==
  /\ PolledInAuth
  /\ esp.it.in.card = "A1B2C3D4"
  /\ esp.it.poll.sends = 1
  /\ RfidCheck("A1B2C3D4") \in esp.sent
  /\ ~esp.isLidOpen
  /\ esp.it.poll.writes = 0

\* The message callback of the last pass of loop() tried to move the lid
\* with a servo that did not attach.
AttachFailed == ~esp.it.servoOk /\ esp.it.cb.writes > 0

\* C21: when attaching the actuator fails as the device tries to open or
\* close the lid, the transition is aborted: the lid state keeps its value,
\* the auto-close start time is not set, and the error indicator is raised.
C21_AttachFailureAborts ==
  AttachFailed
    => /\ esp.it.cb.openAfter = esp.it.cb.openBefore
       /\ esp.it.cb.startAfter = esp.it.cb.startBefore
       /\ esp.ledRed

\* The telemetry texts that carry a level in [0,100], for the distances the
\* level sensor can report.
LevelTexts ==
  {JSON_stringify(JsObject(Num(l), Num(c), Undefined)) : l \in 0..100, c \in Levels}

\* The level sensor's reading of the last pass of loop() is within
\* [0, capacity].
InRange == 0 <= esp.it.in.level /\ esp.it.in.level <= BIN_HEIGHT_CM

\* C22: the device publishes telemetry only for a level-sensor reading within
\* [0, capacity]; a reading outside is discarded and leaves the current level
\* and distance unchanged; every telemetry message carries a level in
\* [0,100].
C22_TelemetryInRange ==
  /\ esp.it.tel.sends > 0 => esp.it.tel.due /\ InRange
  /\ esp.it.tel.due /\ ~InRange
       => /\ esp.it.tel.sends = 0
          /\ esp.currentLevelPercent = esp.it.tel.levelBefore
          /\ esp.currentDistanceCm = esp.it.tel.distanceBefore
  /\ \A m \in esp.sent : m.topic = TOPIC_LEVEL => m.payload \in LevelTexts

\* A reading beyond the capacity was discarded after an earlier one had been
\* published.
C22_Witness ==
  /\ esp.it.tel.due
  /\ esp.it.in.level = 45
  /\ esp.it.tel.sends = 0
  /\ esp.currentDistanceCm = 12
  /\ esp.currentLevelPercent = 60
  /\ \E m \in esp.sent : m.topic = TOPIC_LEVEL

\* round((capacity - d) / capacity * 100), clamped to [0,100], for integers.
RoundedPercent(capacity, d) ==
  constrain(((capacity - d) * 200 + capacity) \div (2 * capacity), 0, 100)

\* The last pass of loop() published the reading it took.
Converted == esp.it.tel.sends > 0

\* C23: for every raw distance d in [0, capacity] the fill percentage the
\* device computes equals round((capacity - d) / capacity * 100) clamped to
\* [0,100], is non-increasing in d, and is the same each time the same d is
\* fed.
C23_RoundedPercentage ==
  /\ Converted
       => esp.currentLevelPercent = RoundedPercent(BIN_HEIGHT_CM, esp.currentDistanceCm)
  /\ Converted /\ esp.it.tel.distanceBefore > 0
       /\ esp.currentDistanceCm >= esp.it.tel.distanceBefore
       => esp.currentLevelPercent <= esp.it.tel.levelBefore
  /\ Converted /\ esp.currentDistanceCm = esp.it.tel.distanceBefore
       => esp.currentLevelPercent = esp.it.tel.levelBefore

\* The config document the last pass of loop() read, DeserializationError
\* when it read none.
ConfigOf(msg) ==
  IF msg.topic = TOPIC_CONFIG THEN deserializeJson(msg.payload) ELSE DeserializationError

GotConfig == ConfigOf(esp.it.in.msg).ok

\* C24: a config message takes effect for all later evaluations (a valid mode
\* replaces the mode, a threshold replaces the proximity threshold; both stay
\* until the next config message and are what the polls of the same pass
\* use), and received while the lid is open it does not interrupt the
\* opening: the lid stays open and its auto-close start time is unchanged.
C24_ConfigTakesEffect ==
  /\ GotConfig /\ OrElse(ConfigOf(esp.it.in.msg).mode, "") \in {"AUTO", "AUTH"}
       => /\ esp.BIN_MODE = ConfigOf(esp.it.in.msg).mode.s
          /\ esp.it.poll.mode = esp.BIN_MODE
  /\ GotConfig /\ IsNumber(ConfigOf(esp.it.in.msg).threshold)
       => /\ esp.PROXIMITY_THRESHOLD_CM = ConfigOf(esp.it.in.msg).threshold.n
          /\ esp.it.poll.threshold = esp.PROXIMITY_THRESHOLD_CM
  /\ ~GotConfig /\ esp.it # Idle
       => /\ esp.BIN_MODE = esp.it.cb.modeBefore
          /\ esp.PROXIMITY_THRESHOLD_CM = esp.it.cb.thresholdBefore
  /\ esp.it.poll.mode = "AUTO" /\ esp.it.in.prox > esp.PROXIMITY_THRESHOLD_CM
       => esp.it.poll.openAfter = esp.it.poll.openBefore
  /\ GotConfig /\ esp.it.cb.openBefore
       => /\ esp.it.cb.openAfter
          /\ esp.it.cb.startAfter = esp.it.cb.startBefore
          /\ esp.it.cb.writes = 0

\* A config message switched the device from AUTO with threshold 30 to AUTH
\* with threshold 50 while the lid was open, and the lid is still open.
C24_Witness ==
  /\ esp.it.in.msg = Msg(TOPIC_CONFIG, DocText[Doc(Undefined, Undefined, Str("AUTH"), Num(50))])
  /\ esp.it.cb.modeBefore = "AUTO"
  /\ esp.it.cb.thresholdBefore = 30
  /\ esp.it.cb.openBefore
  /\ esp.isLidOpen
  /\ esp.lidOpenTime = esp.it.cb.startBefore
  /\ esp.BIN_MODE = "AUTH"
  /\ esp.PROXIMITY_THRESHOLD_CM = 50

\* The last pass of loop() began without a session and made one.
SessionMade == esp.it.session.made

\* What the device has when reconnectMQTT returns, before the pass goes on:
\* one publish, online on the status topic, offline registered as the last
\* will, and the cmd and config topics subscribed.
Announced ==
  /\ esp.it.session.sends = 1
  /\ \E m \in esp.sent : m.topic = TOPIC_STATUS /\ m.payload = "online"
  /\ esp.it.session.will = Some(WillMessage)
  /\ esp.it.session.subscribed = {TOPIC_CMD, TOPIC_CONFIG}

\* Time passes on a device that has no session before and after.
WaitsForSession == ~esp.connected /\ ~esp'.connected /\ esp'.millis # esp.millis

\* C25: every time the session is established or re-established the device
\* publishes online on its status topic, with offline registered as the last
\* will, and subscribes to cmd and config before any other work of loop();
\* while the connection attempt fails it retries at a fixed interval, and
\* does nothing else.
C25_SessionAnnounced ==
  /\ [](SessionMade => Announced)
  /\ [][WaitsForSession
         => esp' = [esp EXCEPT !.millis = esp.millis + 5000]]_vars

\* The session was lost, attempts were refused, and the session was made
\* again.
C25_Witness ==
  /\ SessionMade
  /\ esp.it.session.at > InitEsp.millis
  /\ esp.connected
  /\ Announced

(***************************************************************************)
(* Properties of the two routes (ApiSpec).                                 *)
(***************************************************************************)
\* The request carries no JWT that verifies.
NoValidJwt(i) == authenticateToken(http[i].authorization) # 0

\* C26: a request to update a bin's configuration or to send it a command
\* that carries no valid JWT is rejected without any effect: no bin field is
\* changed, no log entry is appended, and no config or command message is
\* published.
C26_JwtRequired ==
  \A i \in DOMAIN http :
    NoValidJwt(i)
      => /\ http[i].pc = "responded" => http[i].status >= 400
         /\ WroteNoConfig(i)
         /\ \A k \in DOMAIN logs : logs[k].src # i
         /\ \A k \in DOMAIN published : published[k].src # i

\* The auto-close time the device's README documents for LID_AUTO_CLOSE_MS.
DocumentedAutoCloseMs == 5000

\* C27: after a proximity trigger or an open command has opened the lid, the
\* automatic close happens 5 seconds after the opening, as the device's
\* documentation states for LID_AUTO_CLOSE_MS (in the first pass of loop()
\* that starts 5 s or more after the opening).
C27_ClosesAfterFiveSeconds ==
  /\ esp.it.auto.closed
       => /\ esp.it.auto.at - esp.openedAt >= DocumentedAutoCloseMs
          /\ esp.it.auto.at - esp.openedAt < DocumentedAutoCloseMs + GridMs + GridMs
  /\ esp.isLidOpen
       => esp.millis - esp.openedAt < DocumentedAutoCloseMs + GridMs + GridMs

(***************************************************************************)
(* C28.  When a status message with payload online or offline arrives on   *)
(* smartbin/{id}/status, the dashboard's MQTT client delivers it to the    *)
(* status subscriber and the matching bin's is_online becomes true for     *)
(* online and false for offline, while other bins are unchanged.           *)
(***************************************************************************)
StatusArrived ==
  /\ web.received > 0
  /\ web.last.topic \in {StatusTopic(b) : b \in BinIds}
  /\ web.last.payload \in {"online", "offline"}

C28_StatusReachesDashboard ==
  StatusArrived =>
    /\ web.last.calls = 1
    /\ \A b \in DOMAIN web.bins :
         IF b = split(web.last.topic)[2]
         THEN web.bins[b] = [web.before[b] EXCEPT !.is_online = (web.last.payload = "online")]
         ELSE web.bins[b] = web.before[b]

(***************************************************************************)
(* C29.  The event log is append-only: after any sequence of backend       *)
(* operations (telemetry, rfid_check, status, config update, command) the  *)
(* log is the previous log with zero or more entries appended; no existing *)
(* entry is ever updated, reordered or deleted.                            *)
(***************************************************************************)
C29_LogAppendOnly ==
  [][/\ Len(logs') >= Len(logs)
     /\ SubSeq(logs', 1, Len(logs)) = logs]_vars

\* A handler of an inbound message and a route have each added an entry.
C29_Witness ==
  /\ Len(logs) = 2
  /\ logs[1].event_type \in {"level_update", "rfid_scan", "alert"}
  /\ logs[2].event_type \in {"config_change", "lid_open", "lid_close"}

(***************************************************************************)
(* C30.  Each backend handler changes only its own bin fields: telemetry   *)
(* ingestion changes only fill percentage, distance and last-seen;         *)
(* presence tracking changes only the online flag and last-seen; a config  *)
(* update changes only allow-listed config fields; the authorization       *)
(* handler changes no bin field at all; and no handler ever changes a      *)
(* credential record or another bin's record.                              *)
(***************************************************************************)
\* The step is one of handler h working on a message for bin b.
HandlerStepped(h, b) ==
  \E i \in DOMAIN proc :
    proc[i].handler = h /\ proc[i].binId = b /\ proc'[i] # proc[i]

\* The step is one of the config route working on a request for bin b.
ConfigRouteStepped(b) ==
  \E i \in DOMAIN http :
    http[i].pc = "updateBinConfig" /\ http[i].binId = b /\ http'[i] # http[i]

\* The step leaves every field of bin b outside fields as it was.
ChangesOnly(b, fields) ==
  \A f \in DOMAIN bins[b] \ fields : bins'[b][f] = bins[b][f]

C30_WitnessPresence ==
  /\ \E k \in DOMAIN logs : logs[k].event_type = "rfid_scan"
  /\ writer["BIN_01"].status # 0
  /\ bins["BIN_01"].last_seen # Null
  /\ bins["BIN_01"].current_level_percent = 0
  /\ bins["BIN_02"] = InitBins["BIN_02"]

(***************************************************************************)
(* C31.  A telemetry or status message that names a bin absent from the    *)
(* store is dropped like an unknown-bin rfid_check: no bin record is       *)
(* created or changed, no log entry is appended, and no alert or command   *)
(* is published, even when the telemetry level is at or above 80.          *)
(***************************************************************************)
\* Message i is on the level or the status topic of a bin that is not in the
\* store.
IsUnknownBinReport(i) ==
  \E b \in BinIds \ DOMAIN bins :
    msgs[i].topic \in {TopicsOf[b].level, TopicsOf[b].status}

C31_UnknownBinReportDropped ==
  /\ \A i \in DOMAIN msgs : IsUnknownBinReport(i) => NoEffect(i)
  /\ DOMAIN bins = DOMAIN InitBins
  /\ (\A i \in DOMAIN msgs : IsUnknownBinReport(i)) => StoreUntouched

\* A reading of 85 % and a status message of a bin that is not in the store
\* were both handled to the end.
C31_Witness ==
  \E i, j \in DOMAIN msgs :
    /\ Finished(i) /\ msgs[i].topic = TopicsOf["BIN_99"].level
    /\ msgs[i].payload = "{\"level\":85,\"cm\":30}"
    /\ Finished(j) /\ msgs[j].topic = TopicsOf["BIN_99"].status
    /\ proc[i].exit = "error" /\ proc[j].exit = "error"

(***************************************************************************)
(* C32.  After the device (re)connects, it applies the retained            *)
(* configuration for its bin before it resumes normal operation: no        *)
(* proximity evaluation or credential poll is made under the pre-connect   *)
(* mode/threshold once a retained config exists on the broker, regardless  *)
(* of the order in which the config and other subscriptions' messages      *)
(* arrive.                                                                 *)
(***************************************************************************)
\* The device has a session, made when the broker retained a config, and has
\* not read that config yet.
RetainedNotApplied == esp.connected /\ broker.owed

\* The last pass evaluated proximity or polled the card reader.
Polled == ~esp.it.poll.openBefore

C32_RetainedConfigFirst ==
  (RetainedNotApplied /\ Polled)
    => /\ esp.it.poll.mode = OrElse(ConfigOf(broker.retained).mode, "")
       /\ esp.it.poll.threshold = ConfigOf(broker.retained).threshold.n

(***************************************************************************)
(* C33.  Message handling for one bin never stalls another bin: while a    *)
(* handler for bin A is waiting on store I/O, a message for bin B that     *)
(* arrives is dispatched and can run to completion, and the transport      *)
(* client's message callback returns without waiting for any handler's     *)
(* store I/O.                                                              *)
(***************************************************************************)
\* The next step of the handler of message j: the store call it waits on
\* completes and the handler runs on to its next await or to its end.
Resumes(j) ==
  \/ StepUpdateBinLevel(j)
  \/ StepLogLevel(j)
  \/ StepGetBinById(j)
  \/ StepGetUserByRFID(j)
  \/ StepLogRfid(j)
  \/ StepUpdateBinStatus(j)
  \/ StepLogStatus(j)

\* The client can hand the next message to handleMessage.
Dispatches == \E m \in Messages : Deliver(m)

C33_NoStalling ==
  /\ \A j \in DOMAIN proc : ~Finished(j) => ENABLED Resumes(j)
  /\ Len(msgs) < MaxMsgs => ENABLED Dispatches

\* The handler of a message for BIN_01 still waits on the store, and a
\* message for BIN_02 that arrived meanwhile was handled to its end, log row
\* and publish included.
C33_Witness ==
  \E i, j \in DOMAIN msgs :
    /\ i < j
    /\ BinOf(i) = "BIN_01" /\ ~Finished(i)
    /\ BinOf(j) = "BIN_02" /\ Finished(j) /\ ~proc[j].quiet
    /\ LogsOf(j) # {} /\ PubsOf(j) # {}

(***************************************************************************)
(* C34.  The backend never publishes an open command for a scan, nor a     *)
(* full-bin or unauthorized-access alert, unless the corresponding log     *)
(* entry has already been appended: in every execution the log append for  *)
(* a message precedes that message's publish, and if the append fails      *)
(* nothing is published for that message.                                  *)
(***************************************************************************)
\* Log row l is the entry that goes with publish k: made for the same
\* message and bin, an rfid_scan row with success for an open command, an
\* rfid_scan row without success and with the uid for an unauthorized-access
\* alert, a level_update row with the level for a full-bin alert.
LoggedFor(k, l) ==
  LET out == published[k]
      row == logs[l]
  IN /\ row.src = out.src
     /\ \E b \in DOMAIN bins :
          /\ row.bin_id = b
          /\ \/ /\ out.topic = TopicsOf[b].cmd
                /\ out.payload.action = Some("open")
                /\ row.event_type = "rfid_scan" /\ row.success
                /\ row.user_name = out.payload.user
             \/ /\ out.topic = TopicsOf[b].alert
                /\ out.payload.type = Some("unauthorized_access")
                /\ row.event_type = "rfid_scan" /\ ~row.success
                /\ row.rfid_uid = out.payload.uid
             \/ /\ out.topic = TopicsOf[b].alert
                /\ out.payload.type = Some("full_warning")
                /\ row.event_type = "level_update"
                /\ row.level_percent = out.payload.level

OpenedInAuth ==
  \/ ~esp.it.cb.openBefore /\ esp.it.cb.openAfter /\ esp.it.cb.modeBefore = "AUTH"
  \/ ~esp.it.poll.openBefore /\ esp.it.poll.openAfter /\ esp.it.poll.mode = "AUTH"

\* The log holds a success rfid_scan row for the device's bin whose uid is an
\* active credential.
ScanLogged ==
  \E l \in DOMAIN logs :
    /\ logs[l].bin_id = BIN_ID
    /\ logs[l].event_type = "rfid_scan"
    /\ logs[l].success
    /\ \E r \in users : r.is_active /\ logs[l].rfid_uid = Some(r.rfid_uid)

C36_OneScanOneOpening ==
  [][(~esp.isLidOpen /\ esp'.isLidOpen) => esp.openedAt = 0]_vars

(***************************************************************************)
(* C37.  When several configuration updates for the same bin are in flight *)
(* at once, then after all of them have completed the last config message  *)
(* published (the one the broker retains) carries the mode and threshold   *)
(* that are stored for the bin: the retained config never ends up older    *)
(* than the store.                                                         *)
(***************************************************************************)
\* The publishes on bin b's config topic, by position.
ConfigsOf(b) == {k \in DOMAIN published : published[k].topic = "smartbin/" \o b \o "/config"}

\* The config message the broker retains for bin b: the last one published.
RetainedFor(b) == published[CHOOSE k \in ConfigsOf(b) : \A j \in ConfigsOf(b) : j <= k]

C37_RetainedMatchesStore ==
  (\A i \in DOMAIN http : Responded(i))
    => \A b \in DOMAIN bins :
         ConfigsOf(b) # {}
           => /\ RetainedFor(b).payload.mode = bins[b].mode
              /\ RetainedFor(b).payload.threshold = bins[b].threshold_cm

(***************************************************************************)
(* C38.  The device's mode is always AUTO or AUTH: a config message whose  *)
(* mode is any other value leaves the mode unchanged, while a threshold    *)
(* carried in the same message is still applied; a command whose action is *)
(* neither open nor close, and a cmd/config payload that is not valid      *)
(* JSON, change no device state.                                           *)
(***************************************************************************)
\* The last pass read a config message with a mode other than AUTO and AUTH.
GotInvalidMode ==
  /\ GotConfig
  /\ ConfigOf(esp.it.in.msg).mode # Undefined
  /\ OrElse(ConfigOf(esp.it.in.msg).mode, "") \notin {"AUTO", "AUTH"}

\* The last pass read a command with an action other than open and close.
GotInvalidAction ==
  /\ esp.it.in.msg.topic = TOPIC_CMD
  /\ deserializeJson(esp.it.in.msg.payload).ok
  /\ CommandOf(esp.it.in.msg) \notin {"open", "close"}

\* The last pass read a cmd or config payload that is no JSON text.
GotNoJson ==
  /\ esp.it.in.msg.topic \in {TOPIC_CMD, TOPIC_CONFIG}
  /\ esp.it.in.msg.payload = "{action:"

C38_InvalidInputRejected ==
  /\ esp.BIN_MODE \in {"AUTO", "AUTH"}
  /\ GotInvalidMode =>
       /\ esp.it.poll.mode = esp.it.cb.modeBefore
       /\ ConfigOf(esp.it.in.msg).threshold # Undefined
            => esp.it.poll.threshold = ConfigOf(esp.it.in.msg).threshold.n
  /\ GotInvalidAction \/ GotNoJson => esp.it.cb.same

\* A config message with mode MANUAL and threshold 40 was read in AUTH mode:
\* the mode is still AUTH and the threshold is 40.
C38_Witness ==
  /\ GotInvalidMode
  /\ esp.it.cb.modeBefore = "AUTH"
  /\ esp.it.cb.thresholdBefore = 50
  /\ esp.BIN_MODE = "AUTH"
  /\ esp.PROXIMITY_THRESHOLD_CM = 40

\* An unknown action was read while the lid was open.
C38_WitnessAction == GotInvalidAction /\ esp.it.cb.openBefore

\* A payload that is no JSON text was read on the config topic.
C38_WitnessNoJson == GotNoJson /\ esp.it.in.msg.topic = TOPIC_CONFIG

(***************************************************************************)
(* C39.  If a store call fails while a message is being handled,           *)
(* handleMessage catches the failure: no exception escapes the message     *)
(* callback, the remaining steps of that message are skipped, and every    *)
(* later message is still dispatched and handled normally.                 *)
(***************************************************************************)
\* The ways a call of handleMessage ends: its returns, the end of a handler,
\* and its catch.
Exits ==
  {"invalid_topic", "invalid_json", "unknown_type", "no_handler", "invalid_level", "no_uid",
   "bin_not_found", "ok", "error"}

\* The store refused a call made for message i: the INSERT of a log row for a
\* bin that has no row.
StoreFailed(i) ==
  /\ proc[i].pc = "returned"
  /\ JSON_parse(msgs[i].payload).t # "null"
  /\ \E b \in BinIds \ DOMAIN bins :
       \/ msgs[i].topic = TopicsOf[b].status
       \/ /\ msgs[i].topic = TopicsOf[b].level
          /\ proc[i].level >= 80

\* Message j, a scan of an active credential at a bin of the store, was
\* handled as it is with no failure before it.
HandledNormally(j) ==
  /\ proc[j].exit = "ok"
  /\ Cardinality(LogsOf(j)) = 1
  /\ Cardinality(PubsOf(j)) = 1
  /\ \A k \in PubsOf(j) : published[k].topic = TopicsOf[BinOf(j)].cmd

C39_StoreFailureCaught ==
  /\ \A i \in DOMAIN proc : Finished(i) => proc[i].exit \in Exits
  /\ \A i \in DOMAIN proc :
       StoreFailed(i) => proc[i].exit = "error" /\ LogsOf(i) = {} /\ PubsOf(i) = {}
  /\ \A i, j \in DOMAIN proc :
       (i < j /\ StoreFailed(i) /\ Finished(j) /\ IsScan(j, "BIN_01", "A1B2C3D4"))
         => HandledNormally(j)
  /\ (\E i \in DOMAIN proc : StoreFailed(i)) /\ Len(msgs) < MaxMsgs => ENABLED Dispatches

\* The log row of a status message of BIN_99 was refused, and a scan that
\* arrived after it was answered with an open command.
C39_Witness ==
  \E i, j \in DOMAIN proc :
    /\ i < j
    /\ StoreFailed(i) /\ msgs[i].topic = TopicsOf["BIN_99"].status
    /\ Finished(j) /\ IsScan(j, "BIN_01", "A1B2C3D4") /\ PubsOf(j) # {}

(***************************************************************************)
(* C40.  The authorization outcome for a scan depends only on whether the  *)
(* bin exists and whether the uid is an active credential: two runs that   *)
(* differ only in the bin's stored mode (AUTO versus AUTH), threshold,     *)
(* online flag or fill level produce the same publishes and the same log   *)
(* entry for the same uid.                                                 *)
(***************************************************************************)
\* The rfid_scan rows logged for message i, without the model's bookkeeping.
ScanRows(i) ==
  {[logs[k] EXCEPT !.src = 0] :
     k \in {l \in DOMAIN logs : logs[l].src = i /\ logs[l].event_type = "rfid_scan"}}

\* What was published for message i on the bin's alert topic, and the
\* rfid_authorized commands on its cmd topic.
ScanPubs(i) ==
  {[topic |-> published[k].topic, payload |-> published[k].payload] :
     k \in {l \in DOMAIN published :
              /\ published[l].src = i
              /\ \/ published[l].topic = TopicsOf[BinOf(i)].alert
                 \/ /\ published[l].topic = TopicsOf[BinOf(i)].cmd
                    /\ published[l].payload.reason = Some("rfid_authorized")}}

\* The name on the active credential with uid u.
HolderOf(u) == (CHOOSE r \in users : r.rfid_uid = u /\ r.is_active).name

\* The outcome of a scan of uid u at bin b, from b, u and the credentials
\* alone.
OutcomeFor(b, u) ==
  IF IsActiveUid(u)
  THEN [rows |-> {LogRow(b, "rfid_scan", Some(u), Some(HolderOf(u)), Null, Null, TRUE,
                         Some("Access granted for " \o HolderOf(u)), 0)},
        pubs |-> {[topic |-> TopicsOf[b].cmd,
                   payload |-> OutPayload(Some("open"), Some("rfid_authorized"),
                                          Some(HolderOf(u)), Null, Null, Null)]}]
  ELSE [rows |-> {LogRow(b, "rfid_scan", Some(u), Null, Null, Null, FALSE,
                         Some("Access denied: Unknown RFID"), 0)},
        pubs |-> {[topic |-> TopicsOf[b].alert,
                   payload |-> OutPayload(Null, Null, Null, Some("unauthorized_access"),
                                          Some(u), Null)]}]

C40_OutcomeIgnoresBinState ==
  \A i \in DOMAIN msgs : \A b \in DOMAIN bins : \A u \in ScannedUids \ {""} :
    (Finished(i) /\ IsScan(i, b, u))
      => [rows |-> ScanRows(i), pubs |-> ScanPubs(i)] = OutcomeFor(b, u)

\* A scan at BIN_01 was handled after the bin's mode had been set to AUTH.
C40_Witness ==
  /\ bins["BIN_01"].mode = "AUTH"
  /\ \E i \in DOMAIN msgs : Finished(i) /\ IsScan(i, "BIN_01", "A1B2C3D4")
  /\ \E k, l \in DOMAIN logs :
       k < l /\ logs[k].event_type = "config_change" /\ logs[l].event_type = "rfid_scan"

\* A scan at BIN_01 was handled after the bin's fill level had been stored.
C40_WitnessLevel ==
  /\ bins["BIN_01"].current_level_percent = 85
  /\ \E k, l \in DOMAIN logs :
       k < l /\ logs[k].event_type = "level_update" /\ logs[l].event_type = "rfid_scan"

\* A scan of an unknown uid at BIN_02 was handled after the bin's threshold
\* had been set to 30.
C40_WitnessThreshold ==
  /\ bins["BIN_02"].threshold_cm = 30
  /\ \E i \in DOMAIN msgs : Finished(i) /\ IsScan(i, "BIN_02", "DEADBEEF")
  /\ \E k, l \in DOMAIN logs :
       k < l /\ logs[k].event_type = "config_change" /\ logs[l].event_type = "rfid_scan"

====
